---- MODULE Spec2Model ----
(***************************************************************************)
(* Model of the oreo.io python-service: the Change Request service, the    *)
(* Delta storage adapter, the Merge Executor and the writers of a          *)
(* dataset's main table.                                                   *)
(*                                                                         *)
(* One dataset is modelled.  Its main table is a log of commits; staging   *)
(* tables are directories under staging/<name>.  A table is a sequence of  *)
(* rows, a row a record of strings; "NULL" is the SQL null.                *)
(*                                                                         *)
(* Specifications:                                                         *)
(*   Spec        the Change Request service over the adapter, one handler  *)
(*               at a time                                                 *)
(*   SpecStore   the writers of main (Merge Executor, upload store, Live   *)
(*               Edit apply), one handler at a time                        *)
(*   SpecConc    two request threads running full_merge step by step       *)
(*   SpecUpsert  the upsert of execute_merge over every small source and   *)
(*               target                                                    *)
(***************************************************************************)
EXTENDS Integers, Sequences, FiniteSets, TLC

(***************************************************************************)
(* Bounds of the model.                                                    *)
(***************************************************************************)
MaxCRs == 1
MaxEvents == 4
MaxVersion == 1

VARIABLES
    crs,        \* ChangeRequestService._crs : sequence of CR records, cr id = index
    events,     \* ChangeRequestService._events : sequence of [cr_id, event_type]
    staging,    \* staging/<name> directories of the dataset : name -> table
    mainLog,    \* commits of main; mainLog[v + 1] is version v
    ret,        \* what the last handler returned
    thr,        \* request handler threads (used by the concurrent specification)
    conn,       \* views of the shared DuckDB connection (duckdb_pool._connection)
    uploads,    \* pending_uploads/<staging_id> directories : id -> parsed rows
    validation, \* the ValidationResult under inspection and the run's ValidationState
    sessions,   \* LiveEditService._sessions : session_id -> LiveEditSession
    edits,      \* LiveEditService._edits : session_id -> sequence of CellEdit
    clock,      \* datetime.utcnow(), in hours
    cr_edits,   \* ChangeRequestService._edits : cr id -> ChangeRequestEdits
    pool,       \* duckdb_pool : _connection, _initialized, _lock and the connections made
    datasets    \* delta tables of several datasets : dataset_id -> [main, staging]

vars == <<crs, events, staging, mainLog, ret, thr, conn, uploads, validation, sessions, edits, clock, cr_edits, pool, datasets>>

(***************************************************************************)
(* change_request_models.py                                                *)
(***************************************************************************)
DRAFT == "draft"
PENDING_REVIEW == "pending_review"
REJECTED == "rejected"
APPROVED == "approved"
MERGED == "merged"
CLOSED == "closed"

ChangeRequestStatus == {DRAFT, PENDING_REVIEW, REJECTED, APPROVED, MERGED, CLOSED}

can_transition(from_status, to_status) ==
    \/ from_status = DRAFT /\ to_status = PENDING_REVIEW
    \/ from_status = PENDING_REVIEW /\ to_status \in {APPROVED, REJECTED}
    \/ from_status = REJECTED /\ to_status = PENDING_REVIEW
    \/ from_status = APPROVED /\ to_status \in {MERGED, PENDING_REVIEW}
    \/ from_status = MERGED /\ to_status = CLOSED

\* validate_submission without the errors_count and fatal_errors checks (mutant).
validate_submission_no_count_check(cr) ==
    IF cr.status # DRAFT THEN "not_draft"
    ELSE IF cr.title = "" THEN "no_title"
    ELSE ""

\* The result of a validate_* gate: "" when the gate is passed, otherwise
\* which check refused.
validate_submission(cr) ==
    IF cr.status # DRAFT THEN "not_draft"
    ELSE IF cr.title = "" THEN "no_title"
    ELSE IF cr.fatal_errors > 0 THEN "fatal_errors"
    ELSE IF cr.errors_count > 0 THEN "blocking_errors"
    ELSE ""

\* validate_approval without the errors_count check (mutant).
validate_approval_no_error_check(cr) ==
    IF cr.status # PENDING_REVIEW THEN "not_pending_review"
    ELSE IF cr.fatal_errors > 0 THEN "fatal_errors"
    ELSE ""

validate_approval(cr) ==
    IF cr.status # PENDING_REVIEW THEN "not_pending_review"
    ELSE IF cr.fatal_errors > 0 THEN "fatal_errors"
    ELSE IF cr.errors_count > 0 THEN "blocking_errors"
    ELSE ""

validate_merge(cr) ==
    IF cr.status # APPROVED THEN "not_approved"
    ELSE IF cr.staging_path = <<>> THEN "no_staging_path"
    ELSE ""

(***************************************************************************)
(* Inputs.                                                                 *)
(***************************************************************************)
Null == "NULL"
Ids == {"1", "2"}
Vals == {"a", "b"}

\* counts of a ValidationSummary, as the tests build them
SummaryChoices ==
    { [warning |-> 2, error |-> 0, fatal |-> 0],
      [warning |-> 2, error |-> 3, fatal |-> 0],
      [warning |-> 0, error |-> 0, fatal |-> 1] }

NoSummary == [warning |-> 0, error |-> 0, fatal |-> 0, given |-> FALSE]
WithSummary(s) == [warning |-> s.warning, error |-> s.error, fatal |-> s.fatal, given |-> TRUE]
SummaryInputs == {NoSummary} \cup {WithSummary(s) : s \in SummaryChoices}

Titles == {"", "Fix customer data"}

\* the rows a change request stages (test_staging_operations: one update of
\* an existing row, one new row)
StagedRows == << [id |-> "1", v |-> "b"], [id |-> "2", v |-> "a"] >>

InitialMain == << [id |-> "1", v |-> "a"] >>

CRIds == 1..MaxCRs

\* staging/<cr.id> as create_change_request names it, and staging/<int> as
\* the adapter names it from int(cr_id.replace("cr_", ""))
CrStagingName(c) == <<"cr_", c>>
IntStagingName(c) == <<"int", c>>

(***************************************************************************)
(* The main table's log.                                                   *)
(***************************************************************************)
Version(log) == Len(log) - 1
HeadRows(log) == log[Len(log)].rows
Commit(log, rows, by) == Append(log, [rows |-> rows, by |-> by])

Ret(op, c, ok, error) == [op |-> op, cr |-> c, ok |-> ok, error |-> error]

\* the shared connection before any CREATE OR REPLACE VIEW
NoViews == [tgt |-> {}, src |-> {}]

\* duckdb_pool.py before the first get_connection: _connection is None,
\* _initialized is False, _lock is free; connections are numbered as
\* duckdb.connect() makes them
NoPool ==
    [ connection |-> {}, initialized |-> FALSE, lock |-> {},
      made |-> 0, installed |-> {}, loaded |-> {}, closed |-> {},
      handed |-> {} ]

(***************************************************************************)
(* delta_adapter.py : the table adapter                                    *)
(***************************************************************************)
\* tgt."k" = src."k" for every key k; SQL equality is never true of a null
KeyMatch(t, s, keys) ==
    \A i \in 1..Len(keys) :
        /\ t[keys[i]] # Null
        /\ s[keys[i]] # Null
        /\ t[keys[i]] = s[keys[i]]

RECURSIVE FilterSeq(_, _, _, _)
\* the rows of tgt, in order, with NOT EXISTS (SELECT 1 FROM src WHERE key_cond)
FilterSeq(tgt, src, keys, i) ==
    IF i > Len(tgt) THEN <<>>
    ELSE IF \E j \in 1..Len(src) : KeyMatch(tgt[i], src[j], keys)
         THEN FilterSeq(tgt, src, keys, i + 1)
         ELSE <<tgt[i]>> \o FilterSeq(tgt, src, keys, i + 1)

\* SELECT src UNION ALL SELECT tgt WHERE NOT EXISTS (... key_cond)
upsert_sql(src, tgt, keys) == src \o FilterSeq(tgt, src, keys, 1)

\* create_staging_table(project_id, dataset_id, change_request_id, rows)
create_staging_table(n, rows) ==
    /\ staging' = [x \in DOMAIN staging \cup {IntStagingName(n)} |->
                      IF x = IntStagingName(n) THEN rows ELSE staging[x]]
    /\ ret' = Ret("create_staging_table", n, TRUE, "")
    /\ UNCHANGED <<crs, events, mainLog, thr, conn, uploads, validation, sessions, edits, clock, cr_edits, pool,
                   datasets>>

RemoveDir(fs, name) == [x \in DOMAIN fs \ {name} |-> fs[x]]

\* the columns of a table of rows (those of its first row)
TableColumns(rows) == IF rows = <<>> THEN {} ELSE DOMAIN rows[1]

\* _discover_columns: the union of the column names of target and source
discover_columns(tgt, src) == TableColumns(tgt) \cup TableColumns(src)

\* select_src and select_tgt name every column of the union on both views
MissingColumn(src, tgt) ==
    /\ src # <<>> /\ tgt # <<>>
    /\ \/ TableColumns(src) # discover_columns(tgt, src)
       \/ TableColumns(tgt) # discover_columns(tgt, src)

\* What merge_staging_to_main leaves behind: raised is TRUE when it ended in
\* an exception.  fault is the step the environment makes fail, if any.
MergeFaults == {"none", "write_deltalake", "rmtree"}

merge_staging_to_main(fs, log, n, keys, fault) ==
    IF keys = <<>> \/ IntStagingName(n) \notin DOMAIN fs \/ fault = "write_deltalake"
    THEN [raised |-> TRUE, staging |-> fs, log |-> log]
    ELSE IF MissingColumn(fs[IntStagingName(n)], HeadRows(log))
    THEN \* src."c" or tgt."c" names a column the view does not have
         [raised |-> TRUE, staging |-> fs, log |-> log]
    ELSE LET rel == upsert_sql(fs[IntStagingName(n)], HeadRows(log), keys)
             written == Commit(log, rel, "DeltaStorageAdapter.merge_staging_to_main")
         IN IF fault = "rmtree"
            THEN [raised |-> TRUE, staging |-> fs, log |-> written]
            ELSE [raised |-> FALSE, staging |-> RemoveDir(fs, IntStagingName(n)), log |-> written]


(***************************************************************************)
(* change_request_service.py                                               *)
(***************************************************************************)
\* an event recorded under the wrong type (mutant of Event)
Event_wrong_type(c, type) == [cr_id |-> c, event_type |-> "edited"]

Event(c, type) == [cr_id |-> c, event_type |-> type]

create_change_request(title, int_ids) ==
    /\ Len(crs) < MaxCRs
    /\ Len(events) < MaxEvents
    /\ LET cr_id == Len(crs) + 1
           cr == [ status |-> DRAFT,
                   title |-> title,
                   int_ids |-> int_ids,
                   staging_path |-> CrStagingName(cr_id),
                   validation_summary |-> {},
                   warnings_count |-> 0,
                   errors_count |-> 0,
                   fatal_errors |-> 0,
                   delta_version_before |-> {},
                   delta_version_after |-> {} ]
       IN /\ crs' = Append(crs, cr)
          /\ events' = Append(events, Event(cr_id, "created"))
          /\ ret' = Ret("create", cr_id, TRUE, "")
    /\ UNCHANGED <<staging, mainLog, thr, conn, uploads, validation, sessions, edits, clock, cr_edits, pool,
                   datasets>>

\* the CR after "Update validation summary if provided"
WithValidation(cr, vs) ==
    IF vs.given
    THEN [cr EXCEPT !.validation_summary = {[warning |-> vs.warning, error |-> vs.error, fatal |-> vs.fatal]},
                    !.warnings_count = vs.warning,
                    !.errors_count = vs.error,
                    !.fatal_errors = vs.fatal]
    ELSE cr

submit_for_review(c, vs) ==
    /\ IF c \notin DOMAIN crs
       THEN /\ ret' = Ret("submit", c, FALSE, "not_found")
            /\ UNCHANGED <<crs, events>>
       ELSE LET cr == WithValidation(crs[c], vs)
                error == validate_submission(cr)
            IN IF error # ""
               THEN /\ crs' = [crs EXCEPT ![c] = cr]
                    /\ ret' = Ret("submit", c, FALSE, error)
                    /\ UNCHANGED events
               ELSE IF ~can_transition(cr.status, PENDING_REVIEW)
               THEN /\ crs' = [crs EXCEPT ![c] = cr]
                    /\ ret' = Ret("submit", c, FALSE, "illegal_transition")
                    /\ UNCHANGED events
               ELSE /\ Len(events) < MaxEvents
                    /\ crs' = [crs EXCEPT ![c] = [cr EXCEPT !.status = PENDING_REVIEW]]
                    /\ events' = Append(events, Event(c, "submitted"))
                    /\ ret' = Ret("submit", c, TRUE, "")
    /\ UNCHANGED <<staging, mainLog, thr, conn, uploads, validation, sessions, edits, clock, cr_edits, pool,
                   datasets>>

approve_change_request(c) ==
    /\ IF c \notin DOMAIN crs
       THEN /\ ret' = Ret("approve", c, FALSE, "not_found")
            /\ UNCHANGED <<crs, events>>
       ELSE LET cr == crs[c]
                error == validate_approval(cr)
            IN IF error # ""
               THEN /\ ret' = Ret("approve", c, FALSE, error)
                    /\ UNCHANGED <<crs, events>>
               ELSE IF ~can_transition(cr.status, APPROVED)
               THEN /\ ret' = Ret("approve", c, FALSE, "illegal_transition")
                    /\ UNCHANGED <<crs, events>>
               ELSE /\ Len(events) < MaxEvents
                    /\ crs' = [crs EXCEPT ![c] = [cr EXCEPT !.status = APPROVED]]
                    /\ events' = Append(events, Event(c, "approved"))
                    /\ ret' = Ret("approve", c, TRUE, "")
    /\ UNCHANGED <<staging, mainLog, thr, conn, uploads, validation, sessions, edits, clock, cr_edits, pool,
                   datasets>>

reject_change_request(c) ==
    /\ IF c \notin DOMAIN crs
       THEN /\ ret' = Ret("reject", c, FALSE, "not_found")
            /\ UNCHANGED <<crs, events>>
       ELSE LET cr == crs[c]
            IN IF ~can_transition(cr.status, REJECTED)
               THEN /\ ret' = Ret("reject", c, FALSE, "illegal_transition")
                    /\ UNCHANGED <<crs, events>>
               ELSE /\ Len(events) < MaxEvents
                    /\ crs' = [crs EXCEPT ![c] = [cr EXCEPT !.status = REJECTED]]
                    /\ events' = Append(events, Event(c, "rejected"))
                    /\ ret' = Ret("reject", c, TRUE, "")
    /\ UNCHANGED <<staging, mainLog, thr, conn, uploads, validation, sessions, edits, clock, cr_edits, pool,
                   datasets>>

merge_change_request(c, force, fault) ==
    /\ IF c \notin DOMAIN crs
       THEN /\ ret' = Ret("merge", c, FALSE, "not_found")
            /\ UNCHANGED <<crs, events, staging, mainLog>>
       ELSE LET cr == crs[c]
                error == validate_merge(cr)
            IN IF error # "" /\ ~force
               THEN /\ ret' = Ret("merge", c, FALSE, error)
                    /\ UNCHANGED <<crs, events, staging, mainLog>>
               ELSE IF ~cr.int_ids
               THEN \* int(cr.project_id), int(cr.dataset_id) or int(cr_id...) raises
                    /\ ret' = Ret("merge", c, FALSE, "merge_failed")
                    /\ UNCHANGED <<crs, events, staging, mainLog>>
               ELSE LET m == merge_staging_to_main(staging, mainLog, c, <<"id">>, fault)
                    IN /\ Version(m.log) <= MaxVersion
                       /\ staging' = m.staging
                       /\ mainLog' = m.log
                       /\ IF m.raised
                          THEN /\ ret' = Ret("merge", c, FALSE, "merge_failed")
                               /\ UNCHANGED <<crs, events>>
                          ELSE /\ Len(events) < MaxEvents
                               /\ crs' = [crs EXCEPT ![c] =
                                            [cr EXCEPT !.delta_version_before = {0},
                                                       !.delta_version_after = {0 + 1},
                                                       !.status = MERGED]]
                               /\ events' = Append(events, Event(c, "merged"))
                               /\ ret' = Ret("merge", c, TRUE, "")
    /\ UNCHANGED <<thr, conn, uploads, validation, sessions, edits, clock, cr_edits, pool, datasets>>

(***************************************************************************)
(* validation_models.py: the validation states, the counts by severity     *)
(* and the state machine.                                                  *)
(***************************************************************************)
MaxCount == 1

NOT_STARTED == "NOT_STARTED"
IN_PROGRESS == "IN_PROGRESS"
PARTIAL_PASS == "PARTIAL_PASS"
PASSED == "PASSED"
FAILED == "FAILED"
ValidationState == {NOT_STARTED, IN_PROGRESS, PARTIAL_PASS, PASSED, FAILED}

MERGE_ALLOWED == "MERGE_ALLOWED"
MERGE_FAILED == "MERGE_FAILED"

ValidationCounts(info, warning, error, fatal) ==
    [info |-> info, warning |-> warning, error |-> error, fatal |-> fatal]

CountInputs == [info : 0..MaxCount, warning : 0..MaxCount,
                error : 0..MaxCount, fatal : 0..MaxCount]

has_blocking_errors(counts) == counts.error > 0 \/ counts.fatal > 0

has_warnings(counts) == counts.warning > 0

\* ValidationResult.determine_state
determine_state(self) ==
    IF has_blocking_errors(self.counts) THEN FAILED
    ELSE IF has_warnings(self.counts) THEN PARTIAL_PASS
    ELSE PASSED

\* ValidationResult.can_merge
can_merge(self) == self.state = PASSED

\* a state machine that lets an override lift any state to PASSED
transition_override_from_any_state(current_state, counts, override_approved) ==
    IF current_state = NOT_STARTED THEN IN_PROGRESS
    ELSE IF override_approved THEN PASSED
    ELSE IF current_state = IN_PROGRESS
         THEN IF has_blocking_errors(counts) THEN FAILED
              ELSE IF has_warnings(counts) THEN PARTIAL_PASS
              ELSE PASSED
    ELSE current_state

\* ValidationStateMachine.transition
transition(current_state, counts, override_approved) ==
    IF current_state = NOT_STARTED THEN IN_PROGRESS
    ELSE IF current_state = IN_PROGRESS
         THEN IF has_blocking_errors(counts) THEN FAILED
              ELSE IF has_warnings(counts) THEN PARTIAL_PASS
              ELSE PASSED
    ELSE IF current_state = PARTIAL_PASS
         THEN IF override_approved THEN PASSED ELSE PARTIAL_PASS
    ELSE current_state

\* ValidationResult(state, counts, ...): the fields the state machine reads
ValidationResult(state, counts) == [state |-> state, counts |-> counts]

NoValidation == ValidationResult(NOT_STARTED, ValidationCounts(0, 0, 0, 0))

(***************************************************************************)
(* The Change Request service and the adapter, one handler at a time.      *)
(***************************************************************************)
NoRet == Ret("", 0, TRUE, "")

Init ==
    /\ crs = <<>>
    /\ events = <<>>
    /\ staging = <<>>
    /\ mainLog = << [rows |-> InitialMain, by |-> "DeltaStorageAdapter.ensure_main_table"] >>
    /\ ret = NoRet
    /\ thr = <<>>
    /\ conn = NoViews
    /\ uploads = <<>>
    /\ validation = NoValidation
    /\ sessions = <<>>
    /\ edits = <<>>
    /\ clock = 0
    /\ cr_edits = <<>>
    /\ pool = NoPool
    /\ datasets = <<>>

Next ==
    \/ \E title \in Titles, int_ids \in BOOLEAN : create_change_request(title, int_ids)
    \/ \E c \in CRIds, vs \in SummaryInputs : submit_for_review(c, vs)
    \/ \E c \in CRIds : approve_change_request(c)
    \/ \E c \in CRIds : reject_change_request(c)
    \/ \E c \in CRIds, force \in BOOLEAN, fault \in MergeFaults : merge_change_request(c, force, fault)
    \/ \E n \in CRIds : create_staging_table(n, StagedRows)

Spec == Init /\ [][Next]_vars

(***************************************************************************)
(* Claims about the Change Request lifecycle (specification Spec).         *)
(***************************************************************************)
\* the seven transitions the design allows
AllowedTransitions ==
    { <<DRAFT, PENDING_REVIEW>>, <<PENDING_REVIEW, APPROVED>>,
      <<PENDING_REVIEW, REJECTED>>, <<REJECTED, PENDING_REVIEW>>,
      <<APPROVED, MERGED>>, <<APPROVED, PENDING_REVIEW>>, <<MERGED, CLOSED>> }

\* C1: every change of a CR's status, whatever the operation (a merge with
\* force=true included), is one of the seven allowed transitions.
C1_OnlyAllowedTransitions ==
    [][\A c \in DOMAIN crs :
          crs'[c].status # crs[c].status
              => <<crs[c].status, crs'[c].status>> \in AllowedTransitions]_vars

\* C2: a CR that moves to PENDING_REVIEW or APPROVED has error and fatal
\* counts of zero, and a submit or approve that finds error + fatal > 0
\* leaves the status as it was.
C2_ValidationGate ==
    [][\A c \in DOMAIN crs :
          /\ (crs'[c].status # crs[c].status /\ crs'[c].status \in {PENDING_REVIEW, APPROVED})
                => (crs'[c].errors_count = 0 /\ crs'[c].fatal_errors = 0)
          /\ (ret'.op \in {"submit", "approve"} /\ ret'.cr = c
                /\ crs'[c].errors_count + crs'[c].fatal_errors > 0)
                => crs'[c].status = crs[c].status]_vars

\* an approve refused because of recorded errors, the CR still pending review
C2_Witness ==
    \E c \in DOMAIN crs :
        /\ ret = Ret("approve", c, FALSE, "blocking_errors")
        /\ crs[c].status = PENDING_REVIEW
        /\ crs[c].errors_count > 0

\* C3: a merge of an APPROVED CR that fails at the merge step or later
\* leaves main's version unchanged or one higher, leaves the staging table
\* in place, and moves the CR to PENDING_REVIEW.
C3_FailedMergeBackToReview ==
    [][\A c \in DOMAIN crs :
          (crs[c].status = APPROVED /\ ret' = Ret("merge", c, FALSE, "merge_failed"))
              => /\ Version(mainLog') \in {Version(mainLog), Version(mainLog) + 1}
                 /\ (IntStagingName(c) \in DOMAIN staging
                        => IntStagingName(c) \in DOMAIN staging')
                 /\ crs'[c].status = PENDING_REVIEW]_vars

\* C9: resubmitting a REJECTED CR that has a title and no error or fatal
\* count brings it back to PENDING_REVIEW.
C9_ResubmitRejected ==
    [][\A c \in DOMAIN crs :
          (/\ crs[c].status = REJECTED
           /\ ret'.op = "submit" /\ ret'.cr = c
           /\ crs'[c].title # ""
           /\ crs'[c].errors_count = 0 /\ crs'[c].fatal_errors = 0)
              => crs'[c].status = PENDING_REVIEW]_vars

\* the event type each operation records
EventTypeOf(op) ==
    CASE op = "create" -> "created"
      [] op = "submit" -> "submitted"
      [] op = "approve" -> "approved"
      [] op = "reject" -> "rejected"
      [] op = "merge" -> "merged"

\* the event type that records a move to a status
EventTypeFor(status) ==
    CASE status = PENDING_REVIEW -> "submitted"
      [] status = APPROVED -> "approved"
      [] status = REJECTED -> "rejected"
      [] status = MERGED -> "merged"
      [] OTHER -> "none"

LifecycleOps == {"create", "submit", "approve", "reject", "merge"}

EventsOf(c) == SelectSeq(events, LAMBDA e : e.cr_id = c)

\* C10: a successful create, submit, approve, reject or merge appends exactly
\* one event, for its CR and of its type; a refused operation appends none;
\* no event is ever changed or removed.
C10_OneEventPerTransition ==
    [][/\ (ret'.op \in LifecycleOps /\ ret'.ok)
            => events' = Append(events, [cr_id |-> ret'.cr, event_type |-> EventTypeOf(ret'.op)])
       /\ (ret'.op \in LifecycleOps /\ ~ret'.ok) => events' = events
       /\ \A c \in DOMAIN crs :
             crs'[c].status # crs[c].status
                => /\ Len(events') = Len(events) + 1
                   /\ events'[Len(events')].cr_id = c
                   /\ events'[Len(events')].event_type = EventTypeFor(crs'[c].status)
       /\ Len(events') >= Len(events)
       /\ SubSeq(events', 1, Len(events)) = events]_vars

\* a CR that was created, submitted, approved and merged, with its four events
C10_Witness ==
    \E c \in DOMAIN crs :
        /\ ret = Ret("merge", c, TRUE, "")
        /\ crs[c].status = MERGED
        /\ EventsOf(c) = << [cr_id |-> c, event_type |-> "created"],
                            [cr_id |-> c, event_type |-> "submitted"],
                            [cr_id |-> c, event_type |-> "approved"],
                            [cr_id |-> c, event_type |-> "merged"] >>

(***************************************************************************)
(* Cell values.  A value is a string; the values of Timestamps stand for   *)
(* cells of a timestamp column, which pandas hands back as Timestamp       *)
(* objects.                                                                *)
(***************************************************************************)
Timestamps == {"2024-01-01 00:00:00", "2024-06-01 00:00:00"}

InitialMainTs == << [id |-> "1", v |-> "2024-01-01 00:00:00"] >>
StagedRowsTs ==
    << [id |-> "1", v |-> "2024-06-01 00:00:00"], [id |-> "2", v |-> "2024-01-01 00:00:00"] >>

\* whether column v of the main table is a timestamp column
HasTimestampColumn(log) ==
    \E i \in DOMAIN log[1].rows : log[1].rows[i].v \in Timestamps

StagedFor(log) == IF HasTimestampColumn(log) THEN StagedRowsTs ELSE StagedRows

\* json.dump(rows, f): a Timestamp is not JSON serializable
JsonSerializable(rows) ==
    \A i \in DOMAIN rows : \A col \in DOMAIN rows[i] : rows[i][col] \notin Timestamps

(***************************************************************************)
(* merge_executor.py                                                       *)
(***************************************************************************)
\* staging_df.merge(main_current, on=primary_keys, how='inner'): the staging
\* rows whose key values equal those of some row of main (pandas matches a
\* missing value with a missing value)
OverlappingKeys(mainRows, stagingRows, keys) ==
    SelectSeq(stagingRows,
              LAMBDA s : \E i \in DOMAIN mainRows :
                             \A k \in DOMAIN keys : mainRows[i][keys[k]] = s[keys[k]])

\* detect_conflicts: the conflict list (has_conflicts is "it is not empty").
\* Every exception inside the try block ends in "return False, []".
detect_conflicts(mainRows, fs, name, keys, delta_version_before, current_delta_version) ==
    IF /\ delta_version_before # {}
       /\ current_delta_version # {}
       /\ delta_version_before = current_delta_version
    THEN <<>>
    ELSE IF keys = <<>> \/ name \notin DOMAIN fs
    THEN <<>>       \* the SELECT of the staging keys raises
    ELSE IF fs[name] = <<>>
    THEN <<>>
    ELSE IF delta_version_before = {}
    THEN <<>>
    ELSE LET merged == OverlappingKeys(mainRows, fs[name], keys)
         IN IF \E i \in DOMAIN merged : \E k \in DOMAIN keys : merged[i][keys[k]] = Null
            THEN <<>>   \* k=None in key_cond: the SELECT of the rows raises
            ELSE SelectSeq(mainRows,
                           LAMBDA t : \E i \in DOMAIN merged : KeyMatch(t, merged[i], keys))

\* merged_table that keeps the matched target rows too (mutant)
merged_table_keeps_matched(src, tgt, keys) == src \o tgt

\* the relation of upsert_sql in execute_merge, for a source and a target
\* with the same columns
merged_table(src, tgt, keys) == src \o FilterSeq(tgt, src, keys, 1)

\* compute_diff: both counts are read from the current main table
compute_diff(log, version_before, version_after) ==
    LET count_before == Len(HeadRows(log))
        count_after == Len(HeadRows(log))
        Max0(x) == IF x > 0 THEN x ELSE 0
    IN [ version_before |-> version_before,
         version_after |-> version_after,
         rows_before |-> count_before,
         rows_after |-> count_after,
         rows_added |-> Max0(count_after - count_before),
         rows_updated |-> 0,
         rows_deleted |-> Max0(count_before - count_after) ]

\* delta_version_before or (merged_version - 1)
VersionBeforeOr(delta_version_before, merged_version) ==
    IF delta_version_before = {} \/ delta_version_before = {0}
    THEN merged_version - 1
    ELSE CHOOSE v \in delta_version_before : TRUE

\* the result dictionary of full_merge
FullMergeResult(name, ok, error, conflicts, merge, diff, cleanup) ==
    [ op |-> "full_merge", cr |-> name, ok |-> ok, error |-> error,
      conflicts |-> conflicts, merge |-> merge, diff |-> diff, cleanup |-> cleanup ]

ExecutorFaults == {"none", "detect_conflicts", "write_deltalake", "rmtree"}

MaxStoreVersion == 2

\* delta_version_before and current_delta_version as a caller supplies them
VersionInputs == {{}} \cup {{v} : v \in 0..MaxStoreVersion}

full_merge(name, keys, delta_version_before, current_delta_version, skip_conflict_check, fault) ==
    /\ LET conflicts ==
               IF skip_conflict_check THEN <<>>
               ELSE IF fault = "detect_conflicts"
               THEN <<>>   \* a query of detect_conflicts raises: "return False, []"
               ELSE detect_conflicts(HeadRows(mainLog), staging, name, keys,
                                     delta_version_before, current_delta_version)
       IN IF conflicts # <<>>
          THEN \* conflicts.json is written, then MergeConflict is raised
               /\ ret' = FullMergeResult(name, FALSE,
                            IF JsonSerializable(conflicts) THEN "merge_conflict"
                            ELSE "not_json_serializable",
                            conflicts, {}, {}, FALSE)
               /\ UNCHANGED <<staging, mainLog, conn>>
          ELSE IF name \notin DOMAIN staging
          THEN /\ ret' = FullMergeResult(name, FALSE, "staging_path_missing", <<>>, {}, {}, FALSE)
               /\ UNCHANGED <<staging, mainLog, conn>>
          ELSE /\ conn' = [tgt |-> {"main"}, src |-> {name}]
               /\ IF keys = <<>> \/ fault = "write_deltalake"
                  THEN /\ ret' = FullMergeResult(name, FALSE, "merge_failed", <<>>, {}, {}, FALSE)
                       /\ UNCHANGED <<staging, mainLog>>
                  ELSE LET written == Commit(mainLog,
                                             merged_table(staging[name], HeadRows(mainLog), keys),
                                             "MergeExecutor.execute_merge")
                           merged_version == Version(written)
                           merge_result == [ merged_version |-> merged_version,
                                             rows_affected |-> Len(HeadRows(written)) ]
                           diff == compute_diff(written,
                                                VersionBeforeOr(delta_version_before, merged_version),
                                                merged_version)
                       IN /\ Version(mainLog) < MaxStoreVersion
                          /\ mainLog' = written
                          /\ staging' = IF fault = "rmtree" THEN staging
                                        ELSE RemoveDir(staging, name)
                          /\ ret' = FullMergeResult(name, TRUE, "", <<>>, {merge_result}, {diff},
                                                    fault # "rmtree")
    /\ UNCHANGED <<crs, events, thr, uploads, validation, sessions, edits, clock, cr_edits, pool,
                   datasets>>

(***************************************************************************)
(* delta_adapter.py : append_to_main                                       *)
(***************************************************************************)
\* PRAGMA table_info(delta_scan(path)): the columns of the table; a table that
\* a later commit emptied keeps them, a table without _delta_log has none
RECURSIVE SchemaOf(_)
SchemaOf(log) ==
    IF log = <<>> THEN {}
    ELSE IF HeadRows(log) # <<>> THEN DOMAIN HeadRows(log)[1]
    ELSE SchemaOf(SubSeq(log, 1, Len(log) - 1))

\* pa.Table.from_pylist(rows): the columns are the keys of the first row
ColumnsOf(rows) == IF rows = <<>> THEN {} ELSE DOMAIN rows[1]

from_pylist(rows) ==
    [i \in DOMAIN rows |->
        [c \in ColumnsOf(rows) |-> IF c \in DOMAIN rows[i] THEN rows[i][c] ELSE Null]]

\* every column of the table is a VARCHAR column
align_keeping_extra_columns(target_cols, at) ==
    [i \in DOMAIN at |->
        [c \in target_cols \cup DOMAIN at[i] |-> IF c \in DOMAIN at[i] THEN at[i][c] ELSE Null]]

\* one array per target column: the incoming one, or nulls
align_to_existing_schema(target_cols, at) ==
    [i \in DOMAIN at |->
        [c \in target_cols |-> IF c \in DOMAIN at[i] THEN at[i][c] ELSE Null]]

AppendFaults == {"none", "align", "write"}

AppendRaised(log) == [ok |-> FALSE, log |-> log, inserted |-> 0, duplicates |-> 0]

\* every source row is inserted, whether tgt holds a copy or not
append_to_main_without_dedup(log, rows, fault) ==
    LET main_exists == log # <<>>
        aligned == main_exists /\ fault # "align"
        at == IF aligned THEN align_to_existing_schema(SchemaOf(log), from_pylist(rows))
              ELSE from_pylist(rows)
        all_cols == IF aligned THEN SchemaOf(log) ELSE ColumnsOf(rows)
    IN IF (main_exists /\ all_cols # SchemaOf(log)) \/ fault = "write"
       THEN [ok |-> FALSE, log |-> log, inserted |-> 0, duplicates |-> 0]
       ELSE [ ok |-> TRUE,
              log |-> Commit(log, (IF main_exists THEN HeadRows(log) ELSE <<>>) \o at,
                             "DeltaStorageAdapter.append_to_main"),
              inserted |-> Len(rows), duplicates |-> 0 ]

\* tgt rows, then the src rows of which no copy (all columns IS NOT DISTINCT
\* FROM) is in tgt.  A failed alignment is swallowed and leaves the rows as
\* they came; the queries and the write then fail unless the columns are
\* those of the table already
append_to_main(log, rows, fault) ==
    LET main_exists == log # <<>>
        aligned == main_exists /\ fault # "align"
        at == IF aligned THEN align_to_existing_schema(SchemaOf(log), from_pylist(rows))
              ELSE from_pylist(rows)
        all_cols == IF aligned THEN SchemaOf(log) ELSE ColumnsOf(rows)
    IN IF ~main_exists
       THEN IF fault = "write" THEN AppendRaised(log)
            ELSE [ ok |-> TRUE,
                   log |-> Commit(log, at, "DeltaStorageAdapter.append_to_main"),
                   inserted |-> Len(rows), duplicates |-> 0 ]
       ELSE IF all_cols # SchemaOf(log) \/ fault = "write" THEN AppendRaised(log)
       ELSE LET tgt == HeadRows(log)
                IsDup(r) == \E i \in DOMAIN tgt : tgt[i] = r
                dup_count == Len(SelectSeq(at, IsDup))
                merged == tgt \o SelectSeq(at, LAMBDA r : ~IsDup(r))
            IN [ ok |-> TRUE,
                 log |-> Commit(log, merged, "DeltaStorageAdapter.append_to_main"),
                 inserted |-> Len(rows) - dup_count,
                 duplicates |-> dup_count ]

(***************************************************************************)
(* main.py : the staging upload store                                      *)
(***************************************************************************)
UploadIds == {"u1"}

UploadedFor(log) ==
    IF HasTimestampColumn(log)
    THEN { <<>>, << [id |-> "2", v |-> "2024-06-01 00:00:00"] >> }
    ELSE { <<>>, << [id |-> "1", v |-> "a"], [id |-> "2", v |-> "b"] >> }

staging_upload(staging_id, rows) ==
    /\ staging_id \notin DOMAIN uploads
    /\ uploads' = [x \in DOMAIN uploads \cup {staging_id} |->
                      IF x = staging_id THEN rows ELSE uploads[x]]
    /\ ret' = Ret("staging_upload", staging_id, TRUE, "")
    /\ UNCHANGED <<crs, events, staging, mainLog, thr, conn, validation, sessions, edits, clock, cr_edits, pool,
                   datasets>>

FinalizeFaults == {"none", "append_to_main"}

staging_finalize(staging_id, fault) ==
    /\ IF staging_id \notin DOMAIN uploads
       THEN /\ ret' = Ret("staging_finalize", staging_id, FALSE, "Staging not found")
            /\ UNCHANGED <<mainLog, uploads>>
       ELSE IF uploads[staging_id] = <<>>
       THEN /\ ret' = Ret("staging_finalize", staging_id, FALSE, "No data in staged file")
            /\ UNCHANGED <<mainLog, uploads>>
       ELSE IF fault = "append_to_main"
       THEN /\ ret' = Ret("staging_finalize", staging_id, FALSE, "Failed to write to Delta")
            /\ UNCHANGED <<mainLog, uploads>>
       ELSE /\ Version(mainLog) < MaxStoreVersion
            /\ mainLog' = append_to_main(mainLog, uploads[staging_id], "none").log
            /\ uploads' = RemoveDir(uploads, staging_id)
            /\ ret' = Ret("staging_finalize", staging_id, TRUE, "")
    /\ UNCHANGED <<crs, events, staging, thr, conn, validation, sessions, edits, clock, cr_edits, pool,
                   datasets>>

(***************************************************************************)
(* live_edit_service.py : apply_changes                                    *)
(***************************************************************************)
Columns == {"id", "v"}

\* current_df.loc[current_df["_row_id"] == row_id, column] = new_value, where
\* _row_id is range(len(current_df)).  A row_id is <<"int", n>> or, as a JSON
\* client sends it, <<"str", n>>; an int never equals a str.
RowIdMask(rows, row_id) ==
    {i \in DOMAIN rows : row_id[1] = "int" /\ row_id[2] = i - 1}

RECURSIVE ApplyEdits(_, _, _)
ApplyEdits(rows, edited_cells, n) ==
    IF n > Len(edited_cells) THEN [rows |-> rows, rows_updated |-> 0]
    ELSE LET edit == edited_cells[n]
             mask == RowIdMask(rows, edit.row_id)
             hit == edit.column \in Columns /\ mask # {}
             after == IF hit
                      THEN [i \in DOMAIN rows |->
                               IF i \in mask THEN [rows[i] EXCEPT ![edit.column] = edit.new_value]
                               ELSE rows[i]]
                      ELSE rows
             rest == ApplyEdits(after, edited_cells, n + 1)
         IN [rows |-> rest.rows, rows_updated |-> rest.rows_updated + (IF hit THEN 1 ELSE 0)]

RECURSIVE DropRows(_, _, _)
\* current_df[~current_df["_row_id"].isin(deleted_ids)]
DropRows(rows, deleted_ids, i) ==
    IF i > Len(rows) THEN <<>>
    ELSE IF \E d \in DOMAIN deleted_ids : deleted_ids[d] = i - 1
         THEN DropRows(rows, deleted_ids, i + 1)
         ELSE <<rows[i]>> \o DropRows(rows, deleted_ids, i + 1)

EditChoices(log) ==
    LET new_value == IF HasTimestampColumn(log) THEN "2024-06-01 00:00:00" ELSE "b"
    IN { <<>>,
         << [row_id |-> <<"int", 0>>, column |-> "v", new_value |-> new_value] >>,
         << [row_id |-> <<"str", 0>>, column |-> "v", new_value |-> new_value] >> }

DeleteChoices == { <<>>, <<0>> }

ApplyFaults == {"none", "write_deltalake"}

apply_changes(session_known, edited_cells, deleted_rows, fault) ==
    /\ LET edited == ApplyEdits(HeadRows(mainLog), edited_cells, 1)
           current_df == DropRows(edited.rows, deleted_rows, 1)
       IN IF fault = "write_deltalake"
          THEN /\ ret' = Ret("apply_changes", 0, FALSE, "write_failed")
               /\ UNCHANGED mainLog
          ELSE /\ Version(mainLog) < MaxStoreVersion
               /\ mainLog' = Commit(mainLog, current_df, "LiveEditService.apply_changes")
               /\ IF session_known
                  THEN \* SessionStatus has no member COMPLETED: AttributeError
                       ret' = Ret("apply_changes", 0, FALSE, "SessionStatus.COMPLETED")
                  ELSE ret' = [ op |-> "apply_changes", cr |-> 0, ok |-> TRUE, error |-> "",
                                rows_updated |-> edited.rows_updated,
                                rows_deleted |-> Len(edited.rows) - Len(current_df) ]
    /\ UNCHANGED <<crs, events, staging, thr, conn, uploads, validation, sessions, edits, clock, cr_edits, pool,
                   datasets>>

(***************************************************************************)
(* The writers of main, one handler at a time.                             *)
(***************************************************************************)
\* staging/<cr_id> as the executor's callers may name it
StagingNames == {IntStagingName(c) : c \in CRIds} \cup {CrStagingName(c) : c \in CRIds}

KeyInputs == { <<"id">>, <<>> }

InitStore ==
    /\ crs = <<>>
    /\ events = <<>>
    /\ staging = <<>>
    /\ \E rows \in {InitialMain, InitialMainTs} :
           mainLog = << [rows |-> rows, by |-> "DeltaStorageAdapter.ensure_main_table"] >>
    /\ ret = NoRet
    /\ thr = <<>>
    /\ conn = NoViews
    /\ uploads = <<>>
    /\ validation = NoValidation
    /\ sessions = <<>>
    /\ edits = <<>>
    /\ clock = 0
    /\ cr_edits = <<>>
    /\ pool = NoPool
    /\ datasets = <<>>

NextStore ==
    \/ \E n \in CRIds : create_staging_table(n, StagedFor(mainLog))
    \/ \E name \in StagingNames, keys \in KeyInputs,
          delta_version_before \in VersionInputs, current_delta_version \in VersionInputs,
          skip_conflict_check \in BOOLEAN, fault \in ExecutorFaults :
          full_merge(name, keys, delta_version_before, current_delta_version,
                     skip_conflict_check, fault)
    \/ \E staging_id \in UploadIds, rows \in UploadedFor(mainLog) : staging_upload(staging_id, rows)
    \/ \E staging_id \in UploadIds, fault \in FinalizeFaults : staging_finalize(staging_id, fault)
    \/ \E session_known \in BOOLEAN, edited_cells \in EditChoices(mainLog),
          deleted_rows \in DeleteChoices, fault \in ApplyFaults :
          apply_changes(session_known, edited_cells, deleted_rows, fault)

SpecStore == InitStore /\ [][NextStore]_vars

(***************************************************************************)
(* Claims about the writers of main (specification SpecStore).             *)
(***************************************************************************)
\* C5: when conflict detection finds conflicts and skip_conflict_check is
\* false, full_merge writes nothing to main, leaves the staging table in
\* place, leaves every CR as it is and returns the error merge_conflict with
\* the conflicting rows; with skip_conflict_check true the merge is executed
\* whatever the overlap.
C5_ConflictBlocksMerge ==
    [][\A name \in StagingNames, keys \in KeyInputs,
          delta_version_before \in VersionInputs, current_delta_version \in VersionInputs,
          fault \in ExecutorFaults :
          LET conflicts == detect_conflicts(HeadRows(mainLog), staging, name, keys,
                                            delta_version_before, current_delta_version)
          IN /\ (/\ conflicts # <<>>
                 /\ full_merge(name, keys, delta_version_before, current_delta_version,
                               FALSE, fault))
                   => /\ mainLog' = mainLog
                      /\ staging' = staging
                      /\ crs' = crs
                      /\ ~ret'.ok
                      /\ ret'.error = "merge_conflict"
                      /\ ret'.conflicts = conflicts
             /\ (/\ name \in DOMAIN staging
                 /\ full_merge(name, <<"id">>, delta_version_before, current_delta_version,
                               TRUE, "none"))
                   => /\ ret'.ok
                      /\ mainLog' = Commit(mainLog,
                                           merged_table(staging[name], HeadRows(mainLog), <<"id">>),
                                           "MergeExecutor.execute_merge")]_vars

\* C8: main is written by the Merge Executor only: a step of any other
\* operation (apply_changes of Live Edit and finalize of the upload store
\* included) leaves main as it was.
C8_OnlyMergeExecutorWritesMain ==
    [][mainLog' # mainLog => ret'.op = "full_merge"]_vars

(***************************************************************************)
(* Concurrent merge requests.  Each request handler thread runs full_merge *)
(* once; a step is one read or write of the shared state (the tables, the  *)
(* views of the shared connection).  Nothing in full_merge or execute_merge*)
(* takes a lock.                                                           *)
(***************************************************************************)
Threads == {"t1", "t2"}

\* the rows a second change request stages: another value for row 1
OtherStagedRows == << [id |-> "1", v |-> "c"] >>

ConcNames == {IntStagingName(1), IntStagingName(2)}

IdleThread ==
    [ pc |-> "idle", name |-> <<>>, keys |-> <<>>,
      delta_version_before |-> {}, current_delta_version |-> {},
      skip_conflict_check |-> FALSE,
      merged_table |-> <<>>, merge_result |-> {} ]

\* the handler is entered: the arguments of full_merge.  The caller supplies
\* the version main has when it sends the request, or none.
fm_begin(t, name, delta_version_before, current_delta_version, skip_conflict_check) ==
    /\ thr[t].pc = "idle"
    /\ thr' = [thr EXCEPT ![t] =
                  [IdleThread EXCEPT !.pc = IF skip_conflict_check THEN "paths" ELSE "detect",
                                     !.name = name,
                                     !.keys = <<"id">>,
                                     !.delta_version_before = delta_version_before,
                                     !.current_delta_version = current_delta_version,
                                     !.skip_conflict_check = skip_conflict_check]]
    /\ UNCHANGED <<crs, events, staging, mainLog, ret, conn, uploads, validation, sessions, edits, clock, cr_edits, pool,
                   datasets>>

\* Step 1: detect_conflicts
fm_detect(t) ==
    /\ thr[t].pc = "detect"
    /\ LET conflicts == detect_conflicts(HeadRows(mainLog), staging, thr[t].name, thr[t].keys,
                                         thr[t].delta_version_before,
                                         thr[t].current_delta_version)
       IN IF conflicts # <<>>
          THEN /\ thr' = [thr EXCEPT ![t].pc = "done"]
               /\ ret' = FullMergeResult(thr[t].name, FALSE,
                            IF JsonSerializable(conflicts) THEN "merge_conflict"
                            ELSE "not_json_serializable",
                            conflicts, {}, {}, FALSE)
          ELSE /\ thr' = [thr EXCEPT ![t].pc = "paths"]
               /\ UNCHANGED ret
    /\ UNCHANGED <<crs, events, staging, mainLog, conn, uploads, validation, sessions, edits, clock, cr_edits, pool,
                   datasets>>

\* execute_merge: os.path.exists(staging_path)
fm_paths(t) ==
    /\ thr[t].pc = "paths"
    /\ IF thr[t].name \notin DOMAIN staging
       THEN /\ thr' = [thr EXCEPT ![t].pc = "done"]
            /\ ret' = FullMergeResult(thr[t].name, FALSE, "staging_path_missing", <<>>, {}, {}, FALSE)
       ELSE /\ thr' = [thr EXCEPT ![t].pc = "views"]
            /\ UNCHANGED ret
    /\ UNCHANGED <<crs, events, staging, mainLog, conn, uploads, validation, sessions, edits, clock, cr_edits, pool,
                   datasets>>

\* execute_merge: CREATE OR REPLACE VIEW tgt, src on the shared connection
fm_views(t) ==
    /\ thr[t].pc = "views"
    /\ conn' = [tgt |-> {"main"}, src |-> {thr[t].name}]
    /\ thr' = [thr EXCEPT ![t].pc = "query"]
    /\ UNCHANGED <<crs, events, staging, mainLog, ret, uploads, validation, sessions, edits, clock, cr_edits, pool,
                   datasets>>

\* execute_merge: con.execute(upsert_sql) over the views as they are now
fm_query(t) ==
    /\ thr[t].pc = "query"
    /\ LET src == CHOOSE n \in conn.src : TRUE
       IN IF src \notin DOMAIN staging
          THEN /\ thr' = [thr EXCEPT ![t].pc = "done"]
               /\ ret' = FullMergeResult(thr[t].name, FALSE, "merge_failed", <<>>, {}, {}, FALSE)
          ELSE /\ thr' = [thr EXCEPT ![t].pc = "write",
                                     ![t].merged_table =
                                         merged_table(staging[src], HeadRows(mainLog), thr[t].keys)]
               /\ UNCHANGED ret
    /\ UNCHANGED <<crs, events, staging, mainLog, conn, uploads, validation, sessions, edits, clock, cr_edits, pool,
                   datasets>>

\* execute_merge: write_deltalake(main_path, merged_table, mode="overwrite"),
\* then the new version is read
fm_write(t) ==
    /\ thr[t].pc = "write"
    /\ mainLog' = Commit(mainLog, thr[t].merged_table, "MergeExecutor.execute_merge")
    /\ thr' = [thr EXCEPT ![t].pc = "finish",
                          ![t].merge_result =
                              {[ merged_version |-> Version(mainLog'),
                                 rows_affected |-> Len(thr[t].merged_table) ]}]
    /\ UNCHANGED <<crs, events, staging, ret, conn, uploads, validation, sessions, edits, clock, cr_edits, pool,
                   datasets>>

\* Steps 3 and 4: compute_diff, cleanup_staging, and the result is returned
fm_finish(t) ==
    /\ thr[t].pc = "finish"
    /\ LET merge_result == CHOOSE m \in thr[t].merge_result : TRUE
           diff == compute_diff(mainLog,
                                VersionBeforeOr(thr[t].delta_version_before,
                                                merge_result.merged_version),
                                merge_result.merged_version)
       IN /\ staging' = IF thr[t].name \in DOMAIN staging
                        THEN RemoveDir(staging, thr[t].name) ELSE staging
          /\ ret' = FullMergeResult(thr[t].name, TRUE, "", <<>>, {merge_result}, {diff},
                                    thr[t].name \in DOMAIN staging)
    /\ thr' = [thr EXCEPT ![t].pc = "done"]
    /\ UNCHANGED <<crs, events, mainLog, conn, uploads, validation, sessions, edits, clock, cr_edits, pool,
                   datasets>>

InitConc ==
    /\ crs = <<>>
    /\ events = <<>>
    /\ staging = [n \in ConcNames |->
                     IF n = IntStagingName(1) THEN StagedRows ELSE OtherStagedRows]
    /\ mainLog = << [rows |-> InitialMain, by |-> "DeltaStorageAdapter.ensure_main_table"] >>
    /\ ret = NoRet
    /\ thr = [t \in Threads |-> IdleThread]
    /\ conn = NoViews
    /\ uploads = <<>>
    /\ validation = NoValidation
    /\ sessions = <<>>
    /\ edits = <<>>
    /\ clock = 0
    /\ cr_edits = <<>>
    /\ pool = NoPool
    /\ datasets = <<>>

NextConc ==
    \E t \in Threads :
        \/ \E name \in ConcNames,
              delta_version_before \in {{}} \cup {{v} : v \in 0..Version(mainLog)},
              current_delta_version \in {{}, {Version(mainLog)}},
              skip_conflict_check \in BOOLEAN :
              fm_begin(t, name, delta_version_before, current_delta_version, skip_conflict_check)
        \/ fm_detect(t)
        \/ fm_paths(t)
        \/ fm_views(t)
        \/ fm_query(t)
        \/ fm_write(t)
        \/ fm_finish(t)

SpecConc == InitConc /\ [][NextConc]_vars

(***************************************************************************)
(* Claims about concurrent merges (specification SpecConc).                *)
(***************************************************************************)
\* C4: of two merge requests for the same CR that run concurrently, at most
\* one performs the merge write to main.
C4_AtMostOneMergeWrites ==
    \A t1, t2 \in Threads :
        (t1 # t2 /\ thr[t1].name = thr[t2].name /\ thr[t1].pc # "idle" /\ thr[t2].pc # "idle")
            => ~(thr[t1].merge_result # {} /\ thr[t2].merge_result # {})

\* the rows of main at version v
RowsAt(log, v) == log[v + 1].rows

\* C6: a merge whose conflict detection passed because delta_version_before
\* equals the current version supplied to it never replaces a row of main
\* that was changed after delta_version_before.
C6_NoOverwriteOfLaterChange ==
    [][\A t \in Threads :
          (/\ thr[t].pc = "write" /\ thr'[t].pc = "finish"
           /\ ~thr[t].skip_conflict_check
           /\ thr[t].delta_version_before # {}
           /\ thr[t].delta_version_before = thr[t].current_delta_version)
              => LET before == RowsAt(mainLog, CHOOSE v \in thr[t].delta_version_before : TRUE)
                     now == HeadRows(mainLog)
                     written == HeadRows(mainLog')
                 IN \A i \in DOMAIN now :
                        (\A j \in DOMAIN before : before[j] # now[i])
                            => \E j \in DOMAIN written : written[j] = now[i]]_vars

(***************************************************************************)
(* The upsert of execute_merge as a function of its source and target:     *)
(* every source and target of at most MaxRows rows is merged once, through *)
(* full_merge with the conflict check skipped.                             *)
(***************************************************************************)
MaxRows == 2

UpsertRows == [id : Ids \cup {Null}, v : Vals]

RowSeqs(n) == UNION {[1..k -> UpsertRows] : k \in 0..n}

UpsertKeys == { <<"id">>, <<"id", "v">> }

InitUpsert ==
    /\ crs = <<>>
    /\ events = <<>>
    /\ \E S \in RowSeqs(MaxRows) : staging = [n \in {IntStagingName(1)} |-> S]
    /\ \E T \in RowSeqs(MaxRows) :
           mainLog = << [rows |-> T, by |-> "DeltaStorageAdapter.ensure_main_table"] >>
    /\ ret = NoRet
    /\ thr = <<>>
    /\ conn = NoViews
    /\ uploads = <<>>
    /\ validation = NoValidation
    /\ sessions = <<>>
    /\ edits = <<>>
    /\ clock = 0
    /\ cr_edits = <<>>
    /\ pool = NoPool
    /\ datasets = <<>>

NextUpsert ==
    \E keys \in UpsertKeys : full_merge(IntStagingName(1), keys, {}, {}, TRUE, "none")

SpecUpsert == InitUpsert /\ [][NextUpsert]_vars

(***************************************************************************)
(* Claims about the upsert (specification SpecUpsert).                     *)
(***************************************************************************)
\* r[K] = s[K]
SameKey(r, s, keys) == \A k \in DOMAIN keys : r[keys[k]] = s[keys[k]]

\* t is matched by no row of S (a NULL key matches nothing)
Unmatched(t, S, keys) == ~\E i \in DOMAIN S : KeyMatch(t, S[i], keys)

CountOf(r, seq) == Cardinality({i \in DOMAIN seq : seq[i] = r})

\* the keys of S are not NULL and no two rows of S have the same key
DistinctKeys(S, keys) ==
    /\ \A i \in DOMAIN S : \A k \in DOMAIN keys : S[i][keys[k]] # Null
    /\ \A i, j \in DOMAIN S : SameKey(S[i], S[j], keys) => i = j

\* for each source row exactly one result row has its key, and it is the source row
OneRowPerSourceKey(S, R, keys) ==
    \A i \in DOMAIN S :
        \E j \in DOMAIN R :
            /\ R[j] = S[i]
            /\ \A j2 \in DOMAIN R : SameKey(R[j2], S[i], keys) => j2 = j

\* every unmatched target row is kept, as often as it occurs in T
UnmatchedKept(S, T, R, keys) ==
    \A i \in DOMAIN T : Unmatched(T[i], S, keys) => CountOf(T[i], R) >= CountOf(T[i], T)

\* |result| = |S| + |{t in T : t unmatched}|
CountLaw(S, T, R, keys) ==
    Len(R) = Len(S) + Cardinality({i \in DOMAIN T : Unmatched(T[i], S, keys)})

\* C7 as stated: for every source, target and key list, the merged main has
\* for each source row exactly one row with that key, equal to the source
\* row; unmatched target rows are kept; the count law holds.
C7_UpsertLawAnySource ==
    [][\A keys \in UpsertKeys :
          (/\ IntStagingName(1) \in DOMAIN staging
           /\ full_merge(IntStagingName(1), keys, {}, {}, TRUE, "none"))
             => LET S == staging[IntStagingName(1)]
                    T == HeadRows(mainLog)
                    R == HeadRows(mainLog')
                IN /\ OneRowPerSourceKey(S, R, keys)
                   /\ UnmatchedKept(S, T, R, keys)
                   /\ CountLaw(S, T, R, keys)]_vars

\* C7 (amended): for every source and target of the same columns and every
\* key list, the merged main is the source rows followed by the unmatched
\* target rows, so unmatched target rows are kept and the count law holds;
\* when the source keys are distinct and not NULL, each source row has
\* exactly one result row with its key, equal to the source row.
C7_UpsertLaw ==
    [][\A keys \in UpsertKeys :
          (/\ IntStagingName(1) \in DOMAIN staging
           /\ full_merge(IntStagingName(1), keys, {}, {}, TRUE, "none"))
             => LET S == staging[IntStagingName(1)]
                    T == HeadRows(mainLog)
                    R == HeadRows(mainLog')
                IN /\ \A r \in UpsertRows :
                          CountOf(r, R) = CountOf(r, S)
                                          + (IF Unmatched(r, S, keys) THEN CountOf(r, T) ELSE 0)
                   /\ UnmatchedKept(S, T, R, keys)
                   /\ CountLaw(S, T, R, keys)
                   /\ DistinctKeys(S, keys) => OneRowPerSourceKey(S, R, keys)]_vars

\* a merge of a source with distinct keys was done in which one target row
\* was replaced, one source row was inserted and one target row was kept
C7_Witness ==
    /\ ret.op = "full_merge" /\ ret.ok
    /\ Version(mainLog) = 1
    /\ LET T == RowsAt(mainLog, 0)
           R == HeadRows(mainLog)
       IN /\ T = << [id |-> "1", v |-> "a"], [id |-> Null, v |-> "a"] >>
          /\ R = << [id |-> "1", v |-> "b"], [id |-> "2", v |-> "b"], [id |-> Null, v |-> "a"] >>

(***************************************************************************)
(* Claims about validation and the Change Request service (Spec).          *)
(***************************************************************************)
\* the summary recorded on a CR counts an error or a fatal
SummaryBlocks(cr) ==
    \E vs \in cr.validation_summary : vs.error > 0 \/ vs.fatal > 0

\* C11: submit_for_review on a DRAFT CR whose validation summary has
\* error > 0 or fatal > 0 reports failure, leaves the CR in DRAFT and
\* records no event.
C11_BlockedSubmitStaysDraft ==
    [][\A c \in DOMAIN crs :
          (/\ crs[c].status = DRAFT
           /\ ret'.op = "submit" /\ ret'.cr = c
           /\ SummaryBlocks(crs'[c]))
              => /\ ~ret'.ok
                 /\ ret'.error \in {"no_title", "fatal_errors", "blocking_errors"}
                 /\ crs'[c].status = DRAFT
                 /\ events' = events]_vars

\* a submit with a failing summary was refused: the CR is a DRAFT with its
\* created event only
C11_Witness ==
    \E c \in DOMAIN crs :
        /\ ret = Ret("submit", c, FALSE, "blocking_errors")
        /\ crs[c].status = DRAFT
        /\ crs[c].title # ""
        /\ SummaryBlocks(crs[c])
        /\ EventsOf(c) = << [cr_id |-> c, event_type |-> "created"] >>

\* C12: no merge writes main for a CR whose recorded validation counts an
\* error or a fatal (validation state FAILED); no override is asked for
\* (force is false) and none is recorded.
C12_NoMergeOfFailedValidation ==
    [][\A c \in DOMAIN crs, fault \in MergeFaults :
          (merge_change_request(c, FALSE, fault) /\ mainLog' # mainLog)
              => (crs[c].errors_count = 0 /\ crs[c].fatal_errors = 0)]_vars

(***************************************************************************)
(* validation_service.py: validation of a change request's staging table   *)
(* and the gate before a merge.                                            *)
(***************************************************************************)
\* the default suite; nothing else ever fills the cache of suites
load_expectation_suite == [expectation_suite_name |-> "dataset_suite", expectations |-> <<>>]

\* one message severity per expectation the data breaks
RECURSIVE execute_expectations(_, _)
execute_expectations(data, expectations) ==
    IF expectations = <<>> THEN <<>>
    ELSE LET e == expectations[1]
             rest == execute_expectations(data, Tail(expectations))
         IN  IF /\ e.expectation_type = "expect_column_values_to_not_be_null"
                /\ \E i \in DOMAIN data : data[i][e.column] = Null
             THEN <<"ERROR">> \o rest
             ELSE IF /\ e.expectation_type = "expect_column_values_to_be_in_set"
                     /\ \E i \in DOMAIN data : data[i][e.column] \notin e.value_set
             THEN <<"WARNING">> \o rest
             ELSE rest

SeverityCount(messages, severity) ==
    Cardinality({i \in DOMAIN messages : messages[i] = severity})

\* a pydantic model built from keyword arguments: a required field that is
\* not given raises ValidationError, a keyword that is no field is dropped
BaseModel(fields, required, given) ==
    IF required \subseteq DOMAIN given
    THEN [raised |-> FALSE,
          value |-> [f \in fields \cap DOMAIN given |-> given[f]]]
    ELSE [raised |-> TRUE, error |-> "ValidationError"]

ChangeRequestValidationResult(given) ==
    BaseModel({"change_request_tag", "state", "validation_result", "can_approve",
               "requires_override"},
              {"change_request_tag", "state", "validation_result", "can_approve"},
              given)

MergeValidationResult(given) ==
    BaseModel({"change_request_tag", "merge_state", "validation_result",
               "conflict_detected", "conflict_details"},
              {"change_request_tag", "merge_state", "validation_result"},
              given)

\* what validate_change_request(change_request_id) returns or raises
validate_change_request_result(stg, change_request_id) ==
    LET name == IntStagingName(change_request_id)
        suite == load_expectation_suite
        messages == execute_expectations(stg[name], suite.expectations)
        counts == ValidationCounts(SeverityCount(messages, "INFO"),
                                   SeverityCount(messages, "WARNING"),
                                   SeverityCount(messages, "ERROR"),
                                   SeverityCount(messages, "FATAL"))
        final_state == transition(IN_PROGRESS, counts, FALSE)
        validation_result == ValidationResult(final_state, counts)
        cr_state == IF final_state \in {PASSED, PARTIAL_PASS} THEN "CR_VALID"
                    ELSE "CR_INVALID"
        returned == ChangeRequestValidationResult(
                        [change_request_id |-> change_request_id,
                         state |-> cr_state,
                         validation_result |-> validation_result,
                         can_approve |-> final_state # FAILED,
                         requires_override |-> final_state = PARTIAL_PASS])
        handler == ChangeRequestValidationResult(
                        [change_request_id |-> change_request_id,
                         state |-> "CR_INVALID",
                         validation_result |->
                             ValidationResult(FAILED, ValidationCounts(0, 0, 0, 1)),
                         can_approve |-> FALSE,
                         requires_override |-> FALSE])
    IN  IF name \notin DOMAIN stg THEN handler
        ELSE IF returned.raised THEN handler
        ELSE returned

\* what validate_before_merge(change_request_id) returns or raises
validate_before_merge_result(stg, change_request_id) ==
    LET cr_result == validate_change_request_result(stg, change_request_id)
        handler == MergeValidationResult(
                        [change_request_id |-> change_request_id,
                         merge_state |-> MERGE_FAILED,
                         validation_result |->
                             ValidationResult(FAILED, ValidationCounts(0, 0, 0, 1)),
                         conflict_detected |-> FALSE])
    IN  IF cr_result.raised THEN handler
        ELSE LET state == cr_result.value.validation_result.state
                 merge_state == IF state = PASSED THEN MERGE_ALLOWED
                                ELSE IF state = PARTIAL_PASS THEN MERGE_ALLOWED
                                ELSE MERGE_FAILED
                 returned == MergeValidationResult(
                                 [change_request_id |-> change_request_id,
                                  merge_state |-> merge_state,
                                  validation_result |-> cr_result.value.validation_result,
                                  conflict_detected |-> FALSE,
                                  conflict_details |-> Null])
             IN  IF returned.raised THEN handler ELSE returned

Outcome(op, result) ==
    [op |-> op, ok |-> ~result.raised,
     error |-> IF result.raised THEN result.error ELSE "",
     result |-> IF result.raised THEN Null ELSE result.value]

validate_change_request(change_request_id) ==
    /\ ret' = Outcome("validate_change_request",
                      validate_change_request_result(staging, change_request_id))
    /\ UNCHANGED <<crs, events, staging, mainLog, thr, conn, uploads, validation, sessions, edits, clock, cr_edits, pool,
                   datasets>>

validate_before_merge(change_request_id) ==
    /\ ret' = Outcome("validate_before_merge",
                      validate_before_merge_result(staging, change_request_id))
    /\ UNCHANGED <<crs, events, staging, mainLog, thr, conn, uploads, validation, sessions, edits, clock, cr_edits, pool,
                   datasets>>

\* one step of a validation run: state = sm.transition(state, counts, override)
run_transition(counts, override_approved) ==
    /\ validation' = ValidationResult(
                         transition(validation.state, counts, override_approved), counts)
    /\ ret' = [op |-> "transition", ok |-> TRUE, error |-> "",
               result |-> validation'.state,
               current_state |-> validation.state, counts |-> counts,
               override_approved |-> override_approved]
    /\ UNCHANGED <<crs, events, staging, mainLog, thr, conn, uploads, sessions, edits, clock, cr_edits, pool,
                   datasets>>

call_determine_state ==
    /\ ret' = [op |-> "determine_state", ok |-> TRUE, error |-> "",
               result |-> determine_state(validation)]
    /\ UNCHANGED <<crs, events, staging, mainLog, thr, conn, uploads, validation, sessions, edits, clock, cr_edits, pool,
                   datasets>>

call_can_merge ==
    /\ ret' = [op |-> "can_merge", ok |-> TRUE, error |-> "",
               result |-> can_merge(validation)]
    /\ UNCHANGED <<crs, events, staging, mainLog, thr, conn, uploads, validation, sessions, edits, clock, cr_edits, pool,
                   datasets>>

\* change requests asked about: the ones with a staging table and one without
ValidatedIds == 1..(MaxCRs + 1)

InitValidation ==
    /\ crs = <<>>
    /\ events = <<>>
    /\ \E S \in {StagedRows, StagedRowsTs} : staging = [n \in {IntStagingName(1)} |-> S]
    /\ mainLog = << [rows |-> InitialMain, by |-> "DeltaStorageAdapter.ensure_main_table"] >>
    /\ ret = NoRet
    /\ thr = <<>>
    /\ conn = NoViews
    /\ uploads = <<>>
    /\ \E state \in ValidationState, counts \in CountInputs :
           validation = ValidationResult(state, counts)
    /\ sessions = <<>>
    /\ edits = <<>>
    /\ clock = 0
    /\ cr_edits = <<>>
    /\ pool = NoPool
    /\ datasets = <<>>

NextValidation ==
    \/ \E counts \in CountInputs, override_approved \in BOOLEAN :
           run_transition(counts, override_approved)
    \/ call_determine_state
    \/ call_can_merge
    \/ \E c \in ValidatedIds : validate_change_request(c)
    \/ \E c \in ValidatedIds : validate_before_merge(c)

SpecValidation == InitValidation /\ [][NextValidation]_vars

TableNext(s, counts, override_approved) ==
    CASE s = NOT_STARTED -> IN_PROGRESS
      [] s = IN_PROGRESS ->
            IF counts.error > 0 \/ counts.fatal > 0 THEN FAILED
            ELSE IF counts.warning > 0 THEN PARTIAL_PASS
            ELSE PASSED
      [] s = PARTIAL_PASS -> IF override_approved THEN PASSED ELSE PARTIAL_PASS
      [] s = PASSED -> PASSED
      [] s = FAILED -> FAILED

DEFAULT_SESSION_TTL_HOURS == 24
ClockStep == 13
MaxTime == 27
MaxEdits == 2

ACTIVE == "active"
ABORTED == "aborted"
EXPIRED == "expired"

\* sess_<uuid4 hex>: the ids the service can hand out, and one it never did
SessionIds == {"sess_1", "sess_2"}
UnknownSession == "sess_0"

\* LiveEditSession.is_expired
is_expired(self, utcnow) == utcnow > self.expires_at

\* a session that can be edited whatever Change Request it is attached to
can_edit_with_change_request(self, utcnow) ==
    self.status = ACTIVE /\ ~is_expired(self, utcnow)

\* a session that can be edited as long as it is ACTIVE, expired or not
can_edit_ignoring_expiry(self, utcnow) ==
    self.status = ACTIVE /\ self.change_request_id = {}

\* LiveEditSession.can_edit
can_edit(self, utcnow) ==
    /\ self.status = ACTIVE
    /\ ~is_expired(self, utcnow)
    /\ self.change_request_id = {}

\* calculate_session_expiry
calculate_session_expiry(utcnow) == utcnow + DEFAULT_SESSION_TTL_HOURS

\* LiveEditService._get_editable_columns
get_editable_columns == {"amount", "status", "description"}

\* SessionStatistics.calculate_statistics
calculate_statistics(log) ==
    [total_edits |-> Len(log),
     rows_affected |-> Cardinality({log[i].row_id : i \in DOMAIN log}),
     cells_changed |-> Cardinality({<<log[i].row_id, log[i].column>> : i \in DOMAIN log})]

\* the main table of an edited dataset
LiveMain == << [id |-> "1", amount |-> "a"], [id |-> "2", amount |-> "b"] >>

\* a cell value Arrow cannot put in a column: validate_cell answers invalid
Unconvertible == "<object>"
NewValues == {"x", Unconvertible}
EditColumns == {"amount", "id"}
ClientTimestamps == {"none", "not iso"}
\* the row a client edits; the other row of main stays as it is
EditRows == {"1"}
CellEditRequests ==
    {q \in [row_id : EditRows, column : EditColumns, new_value : NewValues,
            client_ts : ClientTimestamps] :
        q.client_ts = "not iso" => (q.column = "amount" /\ q.new_value = "x")}

\* ValidationService.validate_cell under the default suite: no expectation,
\* so a cell is valid unless pa.table({column: [new_value]}) raises
validate_cell(new_value) ==
    IF new_value = Unconvertible
    THEN [valid |-> FALSE, severity |-> "fatal"]
    ELSE [valid |-> TRUE, severity |-> "info"]

EditResponse(status, message, edit_id) ==
    [raised |-> FALSE, status |-> status, message |-> message, edit_id |-> edit_id]

TotalEdits(E) ==
    LET RECURSIVE Sum(_)
        Sum(S) == IF S = {} THEN 0
                  ELSE LET s == CHOOSE x \in S : TRUE IN Len(E[s]) + Sum(S \ {s})
    IN Sum(DOMAIN E)

\* a save_cell_edit that refuses an edit whose cell validation fails, as it
\* refuses one whose preconditions fail: nothing stored, no edit_id
save_cell_edit_dropping_invalid(S, E, session_id, request, utcnow) ==
    IF session_id \notin DOMAIN S
    THEN [sessions |-> S, edits |-> E,
          response |-> EditResponse("error", "Session not found", {})]
    ELSE IF ~can_edit(S[session_id], utcnow)
    THEN [sessions |-> S, edits |-> E,
          response |-> EditResponse("error", "Session is not editable", {})]
    ELSE IF request.column \notin S[session_id].editable_columns
    THEN [sessions |-> S, edits |-> E,
          response |-> EditResponse("error", "Column is not editable", {})]
    ELSE IF request.client_ts = "not iso"
    THEN [sessions |-> S, edits |-> E, response |-> [raised |-> TRUE, error |-> "ValueError"]]
    ELSE IF ~validate_cell(request.new_value).valid
    THEN [sessions |-> S, edits |-> E,
          response |-> EditResponse("error", validate_cell(request.new_value).severity, {})]
    ELSE LET validation_result == validate_cell(request.new_value)
             log == IF session_id \in DOMAIN E THEN E[session_id] ELSE <<>>
             edit_id == <<"edit", session_id, Len(log) + 1>>
             edit == [edit_id |-> edit_id, session_id |-> session_id,
                      row_id |-> request.row_id, column |-> request.column,
                      old_value |-> Null, new_value |-> request.new_value,
                      validation |-> validation_result,
                      is_valid |-> validation_result.valid]
             appended == Append(log, edit)
             stats == calculate_statistics(appended)
             E2 == [s \in DOMAIN E \cup {session_id} |->
                       IF s = session_id THEN appended ELSE E[s]]
             S2 == [S EXCEPT ![session_id] =
                       [@ EXCEPT !.edit_count = Len(appended),
                                 !.cells_changed = stats.cells_changed,
                                 !.rows_affected = stats.rows_affected]]
         IN  [sessions |-> S2, edits |-> E2,
              response |-> EditResponse("ok", validation_result.severity, {edit_id})]

\* save_cell_edit on the sessions S and edit logs E at time utcnow: the
\* sessions and logs it leaves and the response (or the exception)
save_cell_edit_result(S, E, session_id, request, utcnow) ==
    IF session_id \notin DOMAIN S
    THEN [sessions |-> S, edits |-> E,
          response |-> EditResponse("error", "Session not found", {})]
    ELSE IF ~can_edit(S[session_id], utcnow)
    THEN [sessions |-> S, edits |-> E,
          response |-> EditResponse("error", "Session is not editable", {})]
    ELSE IF request.column \notin S[session_id].editable_columns
    THEN [sessions |-> S, edits |-> E,
          response |-> EditResponse("error", "Column is not editable", {})]
    ELSE IF request.client_ts = "not iso"
    THEN \* datetime.fromisoformat raises ValueError
         [sessions |-> S, edits |-> E, response |-> [raised |-> TRUE, error |-> "ValueError"]]
    ELSE LET validation_result == validate_cell(request.new_value)
             log == IF session_id \in DOMAIN E THEN E[session_id] ELSE <<>>
             edit_id == <<"edit", session_id, Len(log) + 1>>
             edit == [edit_id |-> edit_id, session_id |-> session_id,
                      row_id |-> request.row_id, column |-> request.column,
                      old_value |-> Null, new_value |-> request.new_value,
                      validation |-> validation_result,
                      is_valid |-> validation_result.valid]
             appended == Append(log, edit)
             stats == calculate_statistics(appended)
             E2 == [s \in DOMAIN E \cup {session_id} |->
                       IF s = session_id THEN appended ELSE E[s]]
             S2 == [S EXCEPT ![session_id] =
                       [@ EXCEPT !.edit_count = Len(appended),
                                 !.cells_changed = stats.cells_changed,
                                 !.rows_affected = stats.rows_affected]]
         IN  [sessions |-> S2, edits |-> E2,
              response |-> EditResponse(IF edit.is_valid THEN "ok" ELSE "error",
                                        validation_result.severity, {edit_id})]

start_session ==
    /\ \E session_id \in SessionIds \ DOMAIN sessions :
          /\ sessions' = [s \in DOMAIN sessions \cup {session_id} |->
                             IF s = session_id
                             THEN [status |-> ACTIVE,
                                   editable_columns |-> get_editable_columns,
                                   expires_at |-> calculate_session_expiry(clock),
                                   edit_count |-> 0, cells_changed |-> 0,
                                   rows_affected |-> 0, change_request_id |-> {}]
                             ELSE sessions[s]]
          /\ edits' = [s \in DOMAIN edits \cup {session_id} |->
                          IF s = session_id THEN <<>> ELSE edits[s]]
          /\ ret' = [op |-> "start_session", session_id |-> session_id, ok |-> TRUE,
                     error |-> ""]
    /\ UNCHANGED <<crs, events, staging, mainLog, thr, conn, uploads, validation, clock, cr_edits, pool,
                   datasets>>

save_cell_edit(session_id, request) ==
    /\ TotalEdits(edits) < MaxEdits
    /\ LET r == save_cell_edit_result(sessions, edits, session_id, request, clock)
       IN  /\ sessions' = r.sessions
           /\ edits' = r.edits
           /\ ret' = [op |-> "save_cell_edit", session_id |-> session_id,
                      ok |-> ~r.response.raised, error |-> "", response |-> r.response]
    /\ UNCHANGED <<crs, events, staging, mainLog, thr, conn, uploads, validation, clock, cr_edits, pool,
                   datasets>>

\* save_bulk_edits: save_cell_edit for each request in turn; an exception of
\* one ends the batch with the earlier edits saved
RECURSIVE save_bulk_edits_result(_, _, _, _, _)
save_bulk_edits_result(S, E, session_id, requests, utcnow) ==
    IF requests = <<>> THEN [sessions |-> S, edits |-> E, raised |-> FALSE, results |-> <<>>]
    ELSE LET r == save_cell_edit_result(S, E, session_id, requests[1], utcnow)
         IN  IF r.response.raised
             THEN [sessions |-> r.sessions, edits |-> r.edits, raised |-> TRUE,
                   results |-> <<>>]
             ELSE LET rest == save_bulk_edits_result(r.sessions, r.edits, session_id,
                                                     Tail(requests), utcnow)
                  IN  [sessions |-> rest.sessions, edits |-> rest.edits,
                       raised |-> rest.raised,
                       results |-> IF rest.raised THEN <<>>
                                   ELSE << [edit_id |-> r.response.edit_id,
                                            valid |-> r.response.status = "ok"] >>
                                        \o rest.results]

BulkRequests ==
    { <<a, b>> : a \in {q \in CellEditRequests : q.column = "amount" /\ q.client_ts = "none"},
                 b \in {q \in CellEditRequests : q.new_value = "x" /\ q.column = "amount"} }

save_bulk_edits(session_id, requests) ==
    /\ TotalEdits(edits) + Len(requests) <= MaxEdits
    /\ LET r == save_bulk_edits_result(sessions, edits, session_id, requests, clock)
       IN  /\ sessions' = r.sessions
           /\ edits' = r.edits
           /\ ret' = [op |-> "save_bulk_edits", session_id |-> session_id,
                      ok |-> ~r.raised, error |-> "", results |-> r.results]
    /\ UNCHANGED <<crs, events, staging, mainLog, thr, conn, uploads, validation, clock, cr_edits, pool,
                   datasets>>

\* str(base_row.get("id", ...))
StrOf(x) == IF x = Null THEN "None" ELSE x

\* a grid in which the first edit of a cell wins
grid_rows_first_edit_wins(base_rows, E, session_id) ==
    LET overlay == session_id # Null /\ session_id \in DOMAIN E
        log == IF overlay THEN E[session_id] ELSE <<>>
        EditedColumns(row_id) == {log[i].column : i \in {j \in DOMAIN log : log[j].row_id = row_id}}
        FirstEdit(row_id, column) ==
            LET hits == {i \in DOMAIN log : log[i].row_id = row_id /\ log[i].column = column}
            IN  log[CHOOSE i \in hits : \A j \in hits : i <= j].new_value
    IN  [n \in DOMAIN base_rows |->
            LET base_row == base_rows[n]
                row_id == StrOf(base_row.id)
                cols == DOMAIN base_row \cup EditedColumns(row_id)
            IN  [row_id |-> row_id,
                 cells |-> [c \in cols |->
                               IF c \in EditedColumns(row_id) THEN FirstEdit(row_id, c)
                               ELSE base_row[c]],
                 edited |-> \E i \in DOMAIN log : log[i].row_id = row_id]]

\* a grid that lays the edits of every session over main
grid_rows_all_sessions(base_rows, E, session_id) ==
    LET Logs == {E[s] : s \in DOMAIN E}
        EditedColumns(row_id) ==
            UNION {{log[i].column : i \in {j \in DOMAIN log : log[j].row_id = row_id}} :
                      log \in Logs}
        LastEdit(row_id, column) ==
            LET log == CHOOSE l \in Logs :
                           \E i \in DOMAIN l : l[i].row_id = row_id /\ l[i].column = column
                hits == {i \in DOMAIN log : log[i].row_id = row_id /\ log[i].column = column}
            IN  log[CHOOSE i \in hits : \A j \in hits : j <= i].new_value
    IN  [n \in DOMAIN base_rows |->
            LET base_row == base_rows[n]
                row_id == StrOf(base_row.id)
                cols == DOMAIN base_row \cup EditedColumns(row_id)
            IN  [row_id |-> row_id,
                 cells |-> [c \in cols |->
                               IF c \in EditedColumns(row_id) THEN LastEdit(row_id, c)
                               ELSE base_row[c]],
                 edited |-> EditedColumns(row_id) # {}]]

\* the rows get_grid_data answers for main's rows, the edit logs E and the
\* session asked for (Null: none), first page, no ordering
grid_rows(base_rows, E, session_id) ==
    LET overlay == session_id # Null /\ session_id \in DOMAIN E
        log == IF overlay THEN E[session_id] ELSE <<>>
        edited_row_ids == {log[i].row_id : i \in DOMAIN log}
        \* edit_map[row_id][column]: the new_value of the last edit of the cell
        EditedColumns(row_id) == {log[i].column : i \in {j \in DOMAIN log : log[j].row_id = row_id}}
        LastEdit(row_id, column) ==
            LET hits == {i \in DOMAIN log : log[i].row_id = row_id /\ log[i].column = column}
            IN  log[CHOOSE i \in hits : \A j \in hits : j <= i].new_value
    IN  [n \in DOMAIN base_rows |->
            LET base_row == base_rows[n]
                row_id == StrOf(base_row.id)
                cols == DOMAIN base_row \cup EditedColumns(row_id)
            IN  [row_id |-> row_id,
                 cells |-> [c \in cols |->
                               IF c \in EditedColumns(row_id) THEN LastEdit(row_id, c)
                               ELSE base_row[c]],
                 edited |-> row_id \in edited_row_ids]]

get_grid_data(session_id) ==
    /\ ret' = [op |-> "get_grid_data", session_id |-> session_id, ok |-> TRUE,
               error |-> "", total |-> Len(HeadRows(mainLog)),
               rows |-> grid_rows(HeadRows(mainLog), edits, session_id)]
    /\ UNCHANGED <<crs, events, staging, mainLog, thr, conn, uploads, validation,
                   sessions, edits, clock, cr_edits, pool, datasets>>

\* a delete_session that aborts a session whatever is attached to it
delete_session_ignoring_change_request(session_id) ==
    /\ IF session_id \notin DOMAIN sessions
       THEN /\ ret' = [op |-> "delete_session", session_id |-> session_id, ok |-> TRUE,
                       error |-> "", result |-> FALSE]
            /\ UNCHANGED <<sessions, edits>>
       ELSE /\ sessions' = [sessions EXCEPT ![session_id] =
                               [@ EXCEPT !.status = ABORTED]]
            /\ edits' = [s \in DOMAIN edits \ {session_id} |-> edits[s]]
            /\ ret' = [op |-> "delete_session", session_id |-> session_id, ok |-> TRUE,
                       error |-> "", result |-> TRUE]
    /\ UNCHANGED <<crs, events, staging, mainLog, thr, conn, uploads, validation, clock, cr_edits, pool,
                   datasets>>

delete_session(session_id) ==
    /\ IF session_id \notin DOMAIN sessions
       THEN /\ ret' = [op |-> "delete_session", session_id |-> session_id, ok |-> TRUE,
                       error |-> "", result |-> FALSE]
            /\ UNCHANGED <<sessions, edits>>
       ELSE IF sessions[session_id].change_request_id # {}
       THEN /\ ret' = [op |-> "delete_session", session_id |-> session_id, ok |-> FALSE,
                       error |-> "ValueError", result |-> Null]
            /\ UNCHANGED <<sessions, edits>>
       ELSE /\ sessions' = [sessions EXCEPT ![session_id] =
                               [@ EXCEPT !.status = ABORTED]]
            /\ edits' = [s \in DOMAIN edits \ {session_id} |-> edits[s]]
            /\ ret' = [op |-> "delete_session", session_id |-> session_id, ok |-> TRUE,
                       error |-> "", result |-> TRUE]
    /\ UNCHANGED <<crs, events, staging, mainLog, thr, conn, uploads, validation, clock, cr_edits, pool,
                   datasets>>

\* the sessions a sweep at utcnow cleans
Cleaned(S, utcnow) == {s \in DOMAIN S : is_expired(S[s], utcnow) /\ S[s].status = ACTIVE}

cleanup_expired_sessions ==
    /\ LET cleaned == Cleaned(sessions, clock)
       IN  /\ sessions' = [s \in DOMAIN sessions |->
                              IF s \in cleaned THEN [sessions[s] EXCEPT !.status = EXPIRED]
                              ELSE sessions[s]]
           /\ edits' = [s \in DOMAIN edits \ cleaned |-> edits[s]]
           /\ ret' = [op |-> "cleanup_expired_sessions", ok |-> TRUE, error |-> "",
                      cleaned |-> Cardinality(cleaned)]
    /\ UNCHANGED <<crs, events, staging, mainLog, thr, conn, uploads, validation, clock, cr_edits, pool,
                   datasets>>

\* a caller that holds the session get_session gave it attaches a Change
\* Request: session.change_request_id = <id>
set_change_request_id(session_id) ==
    /\ session_id \in DOMAIN sessions
    /\ sessions[session_id].change_request_id = {}
    /\ sessions' = [sessions EXCEPT ![session_id].change_request_id = {"cr_1"}]
    /\ ret' = [op |-> "set_change_request_id", session_id |-> session_id, ok |-> TRUE,
               error |-> ""]
    /\ UNCHANGED <<crs, events, staging, mainLog, thr, conn, uploads, validation, edits, clock, cr_edits, pool,
                   datasets>>

\* time passes
Tick ==
    /\ clock + ClockStep <= MaxTime
    /\ clock' = clock + ClockStep
    /\ ret' = [op |-> "tick", ok |-> TRUE, error |-> ""]
    /\ UNCHANGED <<crs, events, staging, mainLog, thr, conn, uploads, validation,
                   sessions, edits, cr_edits, pool, datasets>>

InitLive ==
    /\ crs = <<>>
    /\ events = <<>>
    /\ staging = <<>>
    /\ mainLog = << [rows |-> LiveMain, by |-> "DeltaStorageAdapter.ensure_main_table"] >>
    /\ ret = NoRet
    /\ thr = <<>>
    /\ conn = NoViews
    /\ uploads = <<>>
    /\ validation = NoValidation
    /\ sessions = <<>>
    /\ edits = <<>>
    /\ clock = 0
    /\ cr_edits = <<>>
    /\ pool = NoPool
    /\ datasets = <<>>

NextLive ==
    \/ start_session
    \/ \E s \in SessionIds \cup {UnknownSession}, request \in CellEditRequests :
           save_cell_edit(s, request)
    \/ \E s \in SessionIds, requests \in BulkRequests : save_bulk_edits(s, requests)
    \/ \E s \in SessionIds \cup {UnknownSession, Null} : get_grid_data(s)
    \/ \E s \in SessionIds \cup {UnknownSession} : delete_session(s)
    \/ cleanup_expired_sessions
    \/ \E s \in SessionIds : set_change_request_id(s)
    \/ Tick

SpecLive == InitLive /\ [][NextLive]_vars

(***************************************************************************)
(* Claims about Live Edit sessions (specification SpecLive).               *)
(***************************************************************************)
\* the edit log of a session, empty when there is none
LogOf(E, s) == IF s \in DOMAIN E THEN E[s] ELSE <<>>

\* the five conditions under which an edit of a column may be saved
SessionAccepts(s, column) ==
    /\ s \in DOMAIN sessions
    /\ sessions[s].status = ACTIVE
    /\ ~(clock > sessions[s].expires_at)
    /\ sessions[s].change_request_id = {}
    /\ column \in sessions[s].editable_columns

\* C15: save_cell_edit appends an edit only if the session exists, its status
\* is ACTIVE, the time is not past expires_at, no Change Request is attached
\* and the column is one of its editable columns; otherwise it answers status
\* error with no edit_id and leaves the edit logs and the sessions' rollups
\* as they were.
C15_EditOnlyWhenEditable ==
    [][ret'.op = "save_cell_edit" =>
        LET s == ret'.session_id
        IN  \A request \in CellEditRequests :
               save_cell_edit(s, request)
                  => /\ edits' # edits
                           => /\ SessionAccepts(s, request.column)
                              /\ Len(LogOf(edits', s)) = Len(LogOf(edits, s)) + 1
                     /\ ~SessionAccepts(s, request.column)
                           => /\ ~ret'.response.raised
                              /\ ret'.response.status = "error"
                              /\ ret'.response.edit_id = {}
                              /\ edits' = edits
                              /\ sessions' = sessions]_vars

C15_Witness ==
    /\ ret.op = "save_cell_edit"
    /\ ret.session_id \in DOMAIN sessions
    /\ ret.response.raised = FALSE
    /\ ret.response.status = "error"
    /\ ret.response.edit_id = {}
    /\ sessions[ret.session_id].status = ACTIVE
    /\ ~(clock > sessions[ret.session_id].expires_at)
    /\ sessions[ret.session_id].change_request_id # {}
    /\ Len(LogOf(edits, ret.session_id)) = 1
    /\ sessions[ret.session_id].edit_count = 1

\* C16: delete_session of a session with a Change Request attached fails and
\* leaves the session's status and its edit log as they were; and a session
\* with a Change Request attached takes no further edit.
C16_AttachedSessionKept ==
    [][\A s \in DOMAIN sessions :
          sessions[s].change_request_id # {}
             => /\ (ret'.op = "delete_session" /\ ret'.session_id = s)
                      => /\ ~ret'.ok
                         /\ sessions'[s].status = sessions[s].status
                         /\ s \in DOMAIN edits' <=> s \in DOMAIN edits
                         /\ LogOf(edits', s) = LogOf(edits, s)
                /\ Len(LogOf(edits', s)) <= Len(LogOf(edits, s))
                /\ (ret'.op = "save_cell_edit" /\ ret'.session_id = s)
                      => /\ ~ret'.response.raised
                         /\ ret'.response.status = "error"
                         /\ ret'.response.edit_id = {}]_vars

C16_Witness ==
    /\ ret.op = "delete_session"
    /\ ~ret.ok
    /\ ret.session_id \in DOMAIN sessions
    /\ sessions[ret.session_id].change_request_id # {}
    /\ sessions[ret.session_id].status = ACTIVE
    /\ Len(LogOf(edits, ret.session_id)) = 1

\* C17: the grid of a session lays its edits over main: for a row r and a
\* column c the cell shows the new_value of the last edit of (r, c) in the
\* session's log if there is one and main's value otherwise, and the row is
\* flagged edited iff the log has an edit of that row.
C17_OverlayLaw ==
    [][ret'.op = "get_grid_data" =>
        LET B == HeadRows(mainLog)
            E == LogOf(edits, ret'.session_id)
        IN  /\ Len(ret'.rows) = Len(B)
            /\ \A n \in DOMAIN B :
                  LET r == ret'.rows[n]
                      Hits(c) == {i \in DOMAIN E : E[i].row_id = r.row_id /\ E[i].column = c}
                  IN  /\ r.row_id = B[n].id
                      /\ DOMAIN r.cells =
                            DOMAIN B[n] \cup {E[i].column : i \in {j \in DOMAIN E : E[j].row_id = r.row_id}}
                      /\ \A c \in DOMAIN r.cells :
                            IF Hits(c) # {}
                            THEN \E i \in Hits(c) :
                                    /\ \A j \in Hits(c) : j <= i
                                    /\ r.cells[c] = E[i].new_value
                            ELSE r.cells[c] = B[n][c]
                      /\ r.edited <=> \E i \in DOMAIN E : E[i].row_id = r.row_id]_vars

C17_Witness ==
    /\ ret.op = "get_grid_data"
    /\ ret.session_id \in DOMAIN edits
    /\ Len(edits[ret.session_id]) = 2
    /\ edits[ret.session_id][1].column = "amount"
    /\ edits[ret.session_id][2].column = "amount"
    /\ edits[ret.session_id][1].new_value # edits[ret.session_id][2].new_value
    /\ ret.rows[1].cells["amount"] = edits[ret.session_id][2].new_value
    /\ ret.rows[1].edited
    /\ ~ret.rows[2].edited
    /\ ret.rows[2].cells["amount"] = "b"

\* the edit logs with every log but session a's taken away
OnlyLog(E, a) == [s \in DOMAIN E \cap {a} |-> E[s]]

\* C18: sessions are isolated: what get_grid_data answers for session A (or
\* for no session) does not depend on the edits of any other session B, so
\* B's uncommitted edits are never seen through A or without a session; and
\* saving edits leaves main's content and version as they were.
C18_SessionIsolation ==
    [][/\ ret'.op = "get_grid_data"
             => ret'.rows = grid_rows(HeadRows(mainLog), OnlyLog(edits, ret'.session_id),
                                      ret'.session_id)
       /\ ret'.op \in {"save_cell_edit", "save_bulk_edits"}
             => /\ mainLog' = mainLog
                /\ \A a \in (SessionIds \cup {Null}) \ {ret'.session_id} :
                      grid_rows(HeadRows(mainLog'), edits', a)
                         = grid_rows(HeadRows(mainLog), edits, a)]_vars

C18_Witness ==
    /\ ret.op = "get_grid_data"
    /\ ret.session_id \in DOMAIN edits
    /\ edits[ret.session_id] = <<>>
    /\ \E b \in DOMAIN edits : b # ret.session_id /\ Len(edits[b]) = 2
    /\ ret.rows[1].cells["amount"] = "a"
    /\ ~ret.rows[1].edited
    /\ Version(mainLog) = 0

\* C19: a sweep (cleanup_expired_sessions) turns to EXPIRED, and discards the
\* edit log of, exactly the sessions that are past expires_at and have no
\* Change Request attached, and leaves every other session as it was; a
\* second sweep right after it changes nothing and reports 0.  (Read for the
\* sessions a sweep can still expire, the ACTIVE ones.)
C19_SweepExactlyExpiredUnattached ==
    [][ret'.op = "cleanup_expired_sessions" =>
        LET due == {s \in DOMAIN sessions :
                       /\ sessions[s].status = ACTIVE
                       /\ clock > sessions[s].expires_at
                       /\ sessions[s].change_request_id = {}}
        IN  /\ \A s \in due : sessions'[s].status = EXPIRED /\ s \notin DOMAIN edits'
            /\ \A s \in DOMAIN sessions \ due :
                  /\ sessions'[s] = sessions[s]
                  /\ s \in DOMAIN edits' <=> s \in DOMAIN edits
                  /\ LogOf(edits', s) = LogOf(edits, s)
            /\ ret'.cleaned = Cardinality(due)
            /\ Cleaned(sessions', clock') = {}]_vars

\* a session that is past expires_at, EXPIRED or ABORTED
Dead(S, s, utcnow) == utcnow > S[s].expires_at \/ S[s].status \in {EXPIRED, ABORTED}

\* C20: a session does not come back: once it is past expires_at or its
\* status is EXPIRED or ABORTED (set by a sweep or by delete_session, which
\* also discard its edits), no later operation makes it editable again or
\* appends an edit to it.
C20_NoReanimation ==
    [][\A s \in DOMAIN sessions :
          /\ Dead(sessions, s, clock)
                => /\ s \in DOMAIN sessions'
                   /\ Dead(sessions', s, clock')
                   /\ ~(/\ sessions'[s].status = ACTIVE
                        /\ ~(clock' > sessions'[s].expires_at)
                        /\ sessions'[s].change_request_id = {})
                   /\ Len(LogOf(edits', s)) <= Len(LogOf(edits, s))
                   /\ (ret'.op = "save_cell_edit" /\ ret'.session_id = s)
                         => /\ ~ret'.response.raised
                            /\ ret'.response.status = "error"
                            /\ ret'.response.edit_id = {}
          /\ sessions'[s].status # sessions[s].status
                => /\ sessions'[s].status \in {EXPIRED, ABORTED}
                   /\ ret'.op \in {"cleanup_expired_sessions", "delete_session"}
                   /\ s \notin DOMAIN edits']_vars

C20_Witness ==
    /\ ret.op = "save_cell_edit"
    /\ ret.session_id \in DOMAIN sessions
    /\ sessions[ret.session_id].status = EXPIRED
    /\ sessions[ret.session_id].edit_count = 1
    /\ ret.session_id \notin DOMAIN edits
    /\ ret.response.status = "error"
    /\ ret.response.edit_id = {}

\* the sessions and logs after the first k requests of a batch, each saved
\* by save_cell_edit on what the one before left, and the k-th response
RECURSIVE AfterRequests(_, _, _)
AfterRequests(s, requests, k) ==
    IF k = 0 THEN [sessions |-> sessions, edits |-> edits, response |-> Null]
    ELSE LET before == AfterRequests(s, requests, k - 1)
         IN  save_cell_edit_result(before.sessions, before.edits, s, requests[k], clock)

\* the requests of a batch that were accepted, as (row_id, column, new_value)
RECURSIVE AcceptedOf(_, _, _)
AcceptedOf(s, requests, k) ==
    IF k = 0 THEN <<>>
    ELSE LET r == AfterRequests(s, requests, k).response
             q == requests[k]
         IN  AcceptedOf(s, requests, k - 1)
                \o (IF ~r.raised /\ r.edit_id # {} THEN << <<q.row_id, q.column, q.new_value>> >>
                    ELSE <<>>)

\* C21: save_bulk_edits applies the edits one after another in input order
\* and returns exactly one outcome per input edit, the i-th outcome being
\* that of the i-th edit; the accepted edits are appended to the session's
\* log in the order of the input.
C21_BulkOutcomePerEdit ==
    [][ret'.op = "save_bulk_edits" =>
        \A requests \in BulkRequests :
           save_bulk_edits(ret'.session_id, requests)
              => LET s == ret'.session_id
                     old == LogOf(edits, s)
                     new == LogOf(edits', s)
                     accepted == AcceptedOf(s, requests, Len(requests))
                 IN  /\ ret'.ok
                     /\ Len(ret'.results) = Len(requests)
                     /\ \A i \in DOMAIN requests :
                           LET r == AfterRequests(s, requests, i).response
                           IN  /\ ret'.results[i].edit_id = r.edit_id
                               /\ ret'.results[i].valid = (r.status = "ok")
                     /\ Len(new) = Len(old) + Len(accepted)
                     /\ \A i \in DOMAIN old : new[i] = old[i]
                     /\ \A i \in DOMAIN accepted :
                           LET e == new[Len(old) + i]
                           IN  <<e.row_id, e.column, e.new_value>> = accepted[i]]_vars

(***************************************************************************)
(* live_edit_service.py: generate_preview, and the sessions' rollups over  *)
(* edits of several rows and columns (specification SpecRollup).           *)
(***************************************************************************)
\* a preview that counts every edit as a changed cell and a changed row
preview_counting_edits(E, session_id) ==
    LET log == IF session_id \in DOMAIN E THEN E[session_id] ELSE <<>>
    IN  [session_id |-> session_id,
         rows_changed |-> Len(log),
         cells_changed |-> Len(log),
         diffs |-> [i \in DOMAIN log |->
                       [row_id |-> log[i].row_id, column |-> log[i].column,
                        old |-> log[i].old_value, new |-> log[i].new_value]],
         validation_summary |->
             [valid |-> Cardinality({i \in DOMAIN log : log[i].is_valid}),
              warnings |-> Cardinality({i \in DOMAIN log : log[i].validation.severity = "warning"}),
              errors |-> Cardinality({i \in DOMAIN log :
                                        log[i].validation.severity \in {"error", "fatal"}})]]

\* the PreviewSummary generate_preview builds from the session's log
preview(E, session_id) ==
    LET log == IF session_id \in DOMAIN E THEN E[session_id] ELSE <<>>
        stats == calculate_statistics(log)
    IN  [session_id |-> session_id,
         rows_changed |-> stats.rows_affected,
         cells_changed |-> stats.cells_changed,
         diffs |-> [i \in DOMAIN log |->
                       [row_id |-> log[i].row_id, column |-> log[i].column,
                        old |-> log[i].old_value, new |-> log[i].new_value]],
         validation_summary |->
             [valid |-> Cardinality({i \in DOMAIN log : log[i].is_valid}),
              warnings |-> Cardinality({i \in DOMAIN log : log[i].validation.severity = "warning"}),
              errors |-> Cardinality({i \in DOMAIN log :
                                        log[i].validation.severity \in {"error", "fatal"}})]]

generate_preview(session_id) ==
    /\ IF session_id \notin DOMAIN sessions
       THEN ret' = [op |-> "generate_preview", session_id |-> session_id, ok |-> FALSE,
                    error |-> "ValueError", preview |-> Null]
       ELSE ret' = [op |-> "generate_preview", session_id |-> session_id, ok |-> TRUE,
                    error |-> "", preview |-> preview(edits, session_id)]
    /\ UNCHANGED <<crs, events, staging, mainLog, thr, conn, uploads, validation,
                   sessions, edits, clock, cr_edits, pool, datasets>>

\* edits of two rows and two editable columns
RollupRequests ==
    [row_id : Ids, column : {"amount", "status"}, new_value : NewValues, client_ts : {"none"}]

NextRollup ==
    \/ start_session
    \/ \E s \in SessionIds, request \in RollupRequests : save_cell_edit(s, request)
    \/ \E s \in SessionIds \cup {UnknownSession} : generate_preview(s)
    \/ \E s \in SessionIds : delete_session(s)

SpecRollup == InitLive /\ [][NextRollup]_vars

\* C22: after every accepted save_cell_edit the session's rollups match its
\* log: edit_count is the number of edits in the log, cells_changed the number
\* of distinct (row_id, column) pairs in it and rows_affected the number of
\* distinct row_ids in it; generate_preview reports the same rows and cells
\* counts and one diff per edit.
C22_RollupsMatchLog ==
    [][/\ (ret'.op = "save_cell_edit" /\ ret'.response.edit_id # {})
             => LET s == ret'.session_id
                    log == LogOf(edits', s)
                IN  /\ Len(log) = Len(LogOf(edits, s)) + 1
                    /\ sessions'[s].edit_count = Len(log)
                    /\ sessions'[s].cells_changed =
                          Cardinality({<<log[i].row_id, log[i].column>> : i \in DOMAIN log})
                    /\ sessions'[s].rows_affected =
                          Cardinality({log[i].row_id : i \in DOMAIN log})
       /\ (ret'.op = "generate_preview" /\ ret'.ok /\ ret'.session_id \in DOMAIN edits)
             => LET s == ret'.session_id
                    log == edits[s]
                IN  /\ ret'.preview.rows_changed = sessions[s].rows_affected
                    /\ ret'.preview.cells_changed = sessions[s].cells_changed
                    /\ ret'.preview.rows_changed = Cardinality({log[i].row_id : i \in DOMAIN log})
                    /\ Len(ret'.preview.diffs) = Len(log)
                    /\ \A i \in DOMAIN log :
                          /\ ret'.preview.diffs[i].row_id = log[i].row_id
                          /\ ret'.preview.diffs[i].column = log[i].column
                          /\ ret'.preview.diffs[i].new = log[i].new_value]_vars

C22_Witness ==
    /\ ret.op = "generate_preview"
    /\ ret.ok
    /\ ret.session_id \in DOMAIN edits
    /\ Len(edits[ret.session_id]) = 2
    /\ edits[ret.session_id][1].row_id = edits[ret.session_id][2].row_id
    /\ edits[ret.session_id][1].column # edits[ret.session_id][2].column
    /\ ret.preview.rows_changed = 1
    /\ ret.preview.cells_changed = 2
    /\ sessions[ret.session_id].edit_count = 2
    /\ sessions[ret.session_id].rows_affected = 1

(***************************************************************************)
(* main.py : POST /delta/append-file, on a table of its own                *)
(* (specification SpecAppend).                                             *)
(***************************************************************************)
MaxAppends == 2

AppendCommit(rows) == [rows |-> rows, by |-> "DeltaStorageAdapter.ensure_main_table"]

\* no table yet, a table of one or two rows, a table a later commit emptied
AppendTables ==
    { <<>>,
      << AppendCommit(<< [id |-> "1", v |-> "a"] >>) >>,
      << AppendCommit(<< [id |-> "1", v |-> "a"], [id |-> "2", v |-> Null] >>) >>,
      << AppendCommit(<< [id |-> "1", v |-> "a"] >>), AppendCommit(<<>>) >> }

\* the rows of the uploaded file: none, the columns of the table, a null,
\* the same row twice, a column missing, a column more
AppendBatches ==
    { <<>>,
      << [id |-> "1", v |-> "a"] >>,
      << [id |-> "2", v |-> Null] >>,
      << [id |-> "2", v |-> "b"], [id |-> "2", v |-> "b"] >>,
      << [id |-> "1", v |-> "a"], [id |-> "2", v |-> "b"] >>,
      << [id |-> "1"] >>,
      << [id |-> "1", v |-> "a", w |-> "x"], [id |-> "2", v |-> "b", w |-> "y"] >>,
      << [id |-> "2", w |-> "x"], [id |-> "2", w |-> "y"] >> }

\* an exception of the adapter leaves the endpoint as HTTP 500
delta_append_file(rows, fault) ==
    /\ Len(mainLog) <= MaxAppends
    /\ mainLog # <<>> \/ rows # <<>>
    /\ LET result == append_to_main(mainLog, rows, fault)
       IN /\ mainLog' = result.log
          /\ ret' = [ op |-> "delta_append_file", ok |-> result.ok, rows |-> rows,
                      total_rows |-> Len(rows), inserted |-> result.inserted,
                      duplicates |-> result.duplicates ]
    /\ UNCHANGED <<crs, events, staging, thr, conn, uploads, validation, sessions, edits, clock, cr_edits, pool,
                   datasets>>

(***************************************************************************)
(* delta_adapter.py : read_at_version, restore; main.py : POST             *)
(* /delta/restore                                                          *)
(***************************************************************************)
\* DeltaTable(path, version=version) and the whole table of it; any failure
\* is raised as ValueError
read_at_version(log, version) ==
    IF version \in 0..Version(log)
    THEN [ok |-> TRUE, data |-> log[version + 1].rows, total |-> Len(log[version + 1].rows)]
    ELSE [ok |-> FALSE, data |-> <<>>, total |-> 0]

RestoreVersions == (0 - 1)..(MaxAppends + 1)

\* vacuum: the files of the version are gone
RestoreFaults == {"none", "vacuum"}

RestoreResult(version, ok, error, rows_before, rows_after) ==
    [ op |-> "delta_restore", ok |-> ok, error |-> error, version |-> version,
      rows_before |-> rows_before, rows_after |-> rows_after ]

\* dt.restore(version) of delta-rs refuses a version that is not below the
\* current one ("Version to restore ... should be less then last available
\* version"); that error is raised again as it is
restore(log, version, fault) ==
    IF log = <<>>
    THEN [log |-> log, error |-> "not restorable"]
    ELSE IF version < 0 \/ version >= Len(log)
    THEN [log |-> log, error |-> "does not exist"]
    ELSE IF version >= Version(log)
    THEN [log |-> log, error |-> "should be less then last available version"]
    ELSE IF fault = "vacuum"
    THEN [log |-> log, error |-> "not restorable"]
    ELSE [log |-> Commit(log, log[version + 1].rows, "DeltaStorageAdapter.restore"), error |-> ""]

delta_restore(version, fault) ==
    /\ Len(mainLog) <= MaxAppends
    /\ LET result == restore(mainLog, version, fault)
           rows_before == IF mainLog = <<>> THEN 0 ELSE Len(HeadRows(mainLog))
       IN /\ mainLog' = result.log
          /\ ret' = IF result.error = ""
                    THEN RestoreResult(version, TRUE, "", rows_before, Len(HeadRows(result.log)))
                    ELSE RestoreResult(version, FALSE, result.error, rows_before, rows_before)
    /\ UNCHANGED <<crs, events, staging, thr, conn, uploads, validation, sessions, edits, clock, cr_edits, pool,
                   datasets>>

InitAppend ==
    /\ crs = <<>>
    /\ events = <<>>
    /\ staging = <<>>
    /\ mainLog \in AppendTables
    /\ ret = NoRet
    /\ thr = <<>>
    /\ conn = NoViews
    /\ uploads = <<>>
    /\ validation = NoValidation
    /\ sessions = <<>>
    /\ edits = <<>>
    /\ clock = 0
    /\ cr_edits = <<>>
    /\ pool = NoPool
    /\ datasets = <<>>

NextAppend ==
    \/ \E rows \in AppendBatches, fault \in AppendFaults : delta_append_file(rows, fault)
    \/ \E version \in RestoreVersions, fault \in RestoreFaults : delta_restore(version, fault)

SpecAppend == InitAppend /\ [][NextAppend]_vars

Under(S, r) == [c \in S |-> IF c \in DOMAIN r THEN r[c] ELSE Null]

\* the number of rows of R of which T holds a copy
DuplicatesOf(R, T) ==
    Cardinality({i \in DOMAIN R : \E j \in DOMAIN T : T[j] = Under(DOMAIN T[1], R[i])})

WriterOps ==
    {"full_merge", "merge", "staging_finalize", "apply_changes", "delta_append_file",
     "delta_restore"}

\* log2 is log with one commit more
OneCommitMore(log, log2) ==
    Len(log2) = Len(log) + 1 /\ SubSeq(log2, 1, Len(log)) = log

\* C25: no step changes a commit of the history; a write that reports success
\* has added exactly one version, a write that reports failure has left the
\* head version as it was
C25_VersionMonotone ==
    [][/\ mainLog' = mainLog \/ OneCommitMore(mainLog, mainLog')
       /\ ret'.op \in WriterOps
            => /\ ret'.ok => OneCommitMore(mainLog, mainLog')
               /\ ~ret'.ok => mainLog' = mainLog]_vars

\* C25 without the writes of Live Edit
C25_VersionMonotoneButApply ==
    [][/\ mainLog' = mainLog \/ OneCommitMore(mainLog, mainLog')
       /\ ret'.op \in WriterOps \ {"apply_changes"}
            => /\ ret'.ok => OneCommitMore(mainLog, mainLog')
               /\ ~ret'.ok => mainLog' = mainLog]_vars

(***************************************************************************)
(* Claims about restore (specification SpecAppend).                        *)
(***************************************************************************)
\* C26: a restore of a version of the history whose files are there adds one
\* commit, and the table read at the new head is the table read at that
\* version; a restore of a version outside the history fails and leaves the
\* history as it was
C26_RestoreRoundTrip ==
    [][ret'.op = "delta_restore"
         => IF mainLog # <<>> /\ ret'.version \in 0..Version(mainLog)
            THEN \/ /\ ret'.ok
                    /\ OneCommitMore(mainLog, mainLog')
                    /\ read_at_version(mainLog', Version(mainLog')).data
                         = read_at_version(mainLog, ret'.version).data
                 \/ /\ ~ret'.ok /\ ret'.error = "not restorable"
                    /\ mainLog' = mainLog
            ELSE ~ret'.ok /\ mainLog' = mainLog]_vars

\* C26 for the versions below the head
C26_RestoreOfOlderVersion ==
    [][ret'.op = "delta_restore"
         => IF mainLog # <<>> /\ ret'.version \in 0..(Version(mainLog) - 1)
            THEN \/ /\ ret'.ok
                    /\ OneCommitMore(mainLog, mainLog')
                    /\ read_at_version(mainLog', Version(mainLog')).data
                         = read_at_version(mainLog, ret'.version).data
                 \/ /\ ~ret'.ok /\ ret'.error = "not restorable"
                    /\ mainLog' = mainLog
            ELSE ~ret'.ok /\ mainLog' = mainLog]_vars

(***************************************************************************)
(* merge_executor.py : execute_merge, and delta_adapter.py :               *)
(* merge_staging_to_main, on tables whose columns differ                   *)
(* (specification SpecColumns).                                            *)
(***************************************************************************)
\* list(set(tgt_cols + src_cols)): the columns of both, in the order the set
\* happens to iterate in
ColumnOrders(S) ==
    {f \in [1..Cardinality(S) -> S] : \A i, j \in DOMAIN f : i # j => f[i] # f[j]}

\* the columns of all_cols that are in cols, in the order of all_cols
SelectList(all_cols, cols) == SelectSeq(all_cols, LAMBDA c : c \in cols)

\* a row of the second SELECT of a UNION ALL: its values go, by position,
\* under the names of the first SELECT
ByPosition(t, select_src, select_tgt) ==
    [c \in {select_src[i] : i \in DOMAIN select_src} |->
        t[select_tgt[CHOOSE i \in DOMAIN select_src : select_src[i] = c]]]

\* write_deltalake(mode="overwrite", schema_mode=...): "merge" keeps the
\* columns of the table and adds those of the data, "overwrite" takes the
\* columns of the data
written_table(rel, tgt_cols, merge_schema) ==
    IF merge_schema
    THEN [i \in DOMAIN rel |->
            [c \in tgt_cols \cup DOMAIN rel[i] |->
                IF c \in DOMAIN rel[i] THEN rel[i][c] ELSE Null]]
    ELSE rel

ColumnFaults == {"none", "write_deltalake"}

ColumnResult(op, name, ok, all_cols) == [op |-> op, cr |-> name, ok |-> ok, all_cols |-> all_cols]

\* the orders all_cols may come in for the staging table of that name
OrdersFor(name) ==
    ColumnOrders(IF name \in DOMAIN staging
                 THEN discover_columns(HeadRows(mainLog), staging[name])
                 ELSE {})

execute_merge(name, primary_keys, all_cols, merge_schema, fault) ==
    /\ all_cols \in OrdersFor(name)
    /\ IF name \notin DOMAIN staging
       THEN /\ ret' = ColumnResult("execute_merge", name, FALSE, all_cols)
            /\ UNCHANGED mainLog
       ELSE LET src == staging[name]
                tgt == HeadRows(mainLog)
                select_src == SelectList(all_cols, TableColumns(src))
                select_tgt == SelectList(all_cols, TableColumns(tgt))
            IN IF \/ primary_keys = <<>>
                  \/ \E k \in DOMAIN primary_keys :
                        primary_keys[k] \notin TableColumns(src) \cap TableColumns(tgt)
                  \/ Len(select_src) # Len(select_tgt)
                  \/ fault = "write_deltalake"
               THEN \* the query or the write raises, and execute_merge raises it again
                    /\ ret' = ColumnResult("execute_merge", name, FALSE, all_cols)
                    /\ UNCHANGED mainLog
               ELSE LET kept == FilterSeq(tgt, src, primary_keys, 1)
                        rel == src \o [i \in DOMAIN kept |->
                                          ByPosition(kept[i], select_src, select_tgt)]
                    IN /\ Version(mainLog) < MaxStoreVersion
                       /\ mainLog' = Commit(mainLog,
                                            written_table(rel, TableColumns(tgt), merge_schema),
                                            "MergeExecutor.execute_merge")
                       /\ ret' = ColumnResult("execute_merge", name, TRUE, all_cols)
    /\ UNCHANGED <<crs, events, staging, thr, conn, uploads, validation, sessions, edits, clock, cr_edits, pool,
                   datasets>>

call_merge_staging_to_main(n, keys, fault) ==
    /\ LET m == merge_staging_to_main(staging, mainLog, n, keys, fault)
       IN /\ Version(m.log) <= MaxStoreVersion
          /\ staging' = m.staging
          /\ mainLog' = m.log
          /\ ret' = ColumnResult("merge_staging_to_main", IntStagingName(n), ~m.raised, <<>>)
    /\ UNCHANGED <<crs, events, thr, conn, uploads, validation, sessions, edits, clock, cr_edits, pool,
                   datasets>>

\* tables of columns {id, v}, {id, w}, {id, v, w} and {id}
ColumnTables ==
    { << [id |-> "1", v |-> "a"], [id |-> "2", v |-> "b"] >>,
      << [id |-> "1", w |-> "x"], [id |-> "3", w |-> "y"] >>,
      << [id |-> "1", v |-> "b", w |-> "x"], [id |-> "3", v |-> "c", w |-> "y"] >>,
      << [id |-> "2"] >> }

InitColumns ==
    /\ crs = <<>>
    /\ events = <<>>
    /\ \E S \in ColumnTables : staging = [n \in {IntStagingName(1)} |-> S]
    /\ \E T \in ColumnTables :
           mainLog = << [rows |-> T, by |-> "DeltaStorageAdapter.ensure_main_table"] >>
    /\ ret = NoRet
    /\ thr = <<>>
    /\ conn = NoViews
    /\ uploads = <<>>
    /\ validation = NoValidation
    /\ sessions = <<>>
    /\ edits = <<>>
    /\ clock = 0
    /\ cr_edits = <<>>
    /\ pool = NoPool
    /\ datasets = <<>>

NextColumns ==
    \/ \E S \in ColumnTables : create_staging_table(1, S)
    \/ \E keys \in KeyInputs, merge_schema \in BOOLEAN, fault \in ColumnFaults,
          all_cols \in OrdersFor(IntStagingName(1)) :
          execute_merge(IntStagingName(1), keys, all_cols, merge_schema, fault)
    \/ \E keys \in KeyInputs, fault \in MergeFaults : call_merge_staging_to_main(1, keys, fault)

SpecColumns == InitColumns /\ [][NextColumns]_vars

(***************************************************************************)
(* Claims about the columns of a merge (specification SpecColumns).        *)
(***************************************************************************)
\* row r with null in the columns of S it lacks
Widened(S, r) == [c \in S |-> IF c \in DOMAIN r THEN r[c] ELSE Null]

\* C27: a merge on key id of a staging table and a main table of different
\* columns succeeds and leaves in main, under the union of the columns, the
\* source rows followed by the unmatched target rows, each with its own
\* values under its own columns and null elsewhere
C27_ColumnUnion ==
    [][(/\ ret'.op \in {"execute_merge", "merge_staging_to_main"}
        /\ ret'.cr \in DOMAIN staging
        /\ TableColumns(staging[ret'.cr]) # TableColumns(HeadRows(mainLog))
        /\ mainLog' # mainLog \/ ret'.ok)
          => LET src == staging[ret'.cr]
                 tgt == HeadRows(mainLog)
                 all == TableColumns(src) \cup TableColumns(tgt)
                 kept == FilterSeq(tgt, src, <<"id">>, 1)
             IN HeadRows(mainLog') =
                   [i \in DOMAIN src |-> Widened(all, src[i])]
                      \o [i \in DOMAIN kept |-> Widened(all, kept[i])]]_vars

\* C27 for the merges of tables of the same columns
C27_SameColumns ==
    [][(/\ ret'.op \in {"execute_merge", "merge_staging_to_main"}
        /\ ret'.cr \in DOMAIN staging
        /\ TableColumns(staging[ret'.cr]) = TableColumns(HeadRows(mainLog))
        /\ mainLog' # mainLog \/ ret'.ok)
          => HeadRows(mainLog') =
                staging[ret'.cr] \o FilterSeq(HeadRows(mainLog), staging[ret'.cr], <<"id">>, 1)]_vars

(***************************************************************************)
(* change_request_service.py : the Change Request service with the staging *)
(* directory of each CR and the edits stored for it                        *)
(* (specification SpecStaging).                                            *)
(***************************************************************************)
\* the proposed rows of a draft are written as a table at cr.staging_path,
\* the directory staging/<cr_id> that MergeExecutor.full_merge and
\* cleanup_staging look for
stage_at_staging_path(c) ==
    /\ c \in DOMAIN crs
    /\ crs[c].status = DRAFT
    /\ crs[c].staging_path \notin DOMAIN staging
    /\ staging' = [x \in DOMAIN staging \cup {crs[c].staging_path} |->
                      IF x = crs[c].staging_path THEN StagedRows ELSE staging[x]]
    /\ ret' = Ret("stage_at_staging_path", c, TRUE, "")
    /\ UNCHANGED <<crs, events, mainLog, thr, conn, uploads, validation, sessions, edits, clock, cr_edits, pool,
                   datasets>>

DiffChoices == { << [row_id |-> "1", column |-> "v"] >> }

\* self._edits[cr_id] = edits, whether the CR exists or not
save_cr_edits(c, diffs) ==
    /\ cr_edits' = [x \in DOMAIN cr_edits \cup {c} |-> IF x = c THEN diffs ELSE cr_edits[x]]
    /\ ret' = Ret("save_cr_edits", c, TRUE, "")
    /\ UNCHANGED <<crs, events, staging, mainLog, thr, conn, uploads, validation, sessions, edits, clock, pool,
                   datasets>>

CleanupFaults == {"none", "rmtree"}

\* cleanup_staging that forgets the path it has cleaned (mutant)
cleanup_staging_clearing_path(c, fault) ==
    /\ c \in DOMAIN crs
    /\ crs' = [crs EXCEPT ![c].staging_path = IntStagingName(c)]
    /\ staging' = RemoveDir(staging, crs[c].staging_path)
    /\ ret' = Ret("cleanup_staging", c, TRUE, "")
    /\ UNCHANGED <<events, mainLog, thr, conn, uploads, validation, sessions, edits, clock, cr_edits, pool,
                   datasets>>

\* cleanup_staging(cr): True when the directory was there and is removed
cleanup_staging(c, fault) ==
    /\ c \in DOMAIN crs
    /\ IF crs[c].staging_path \in DOMAIN staging /\ fault # "rmtree"
       THEN /\ staging' = RemoveDir(staging, crs[c].staging_path)
            /\ ret' = Ret("cleanup_staging", c, TRUE, "")
       ELSE /\ UNCHANGED staging
            /\ ret' = Ret("cleanup_staging", c, FALSE, "")
    /\ UNCHANGED <<crs, events, mainLog, thr, conn, uploads, validation, sessions, edits, clock, cr_edits, pool,
                   datasets>>

\* a CR of a dataset with numeric ids, submitted without a validation summary
NextStaging ==
    \/ create_change_request("Fix customer data", TRUE)
    \/ \E c \in CRIds : submit_for_review(c, NoSummary)
    \/ \E c \in CRIds : approve_change_request(c)
    \/ \E c \in CRIds : reject_change_request(c)
    \/ \E c \in CRIds, force \in BOOLEAN : merge_change_request(c, force, "none")
    \/ \E n \in CRIds : create_staging_table(n, StagedRows)
    \/ \E c \in CRIds : stage_at_staging_path(c)
    \/ \E c \in CRIds, diffs \in DiffChoices : save_cr_edits(c, diffs)
    \/ \E c \in CRIds, fault \in CleanupFaults : cleanup_staging(c, fault)

SpecStaging == Init /\ [][NextStaging]_vars

(***************************************************************************)
(* Claims about the staging directory of a CR (specification SpecStaging). *)
(***************************************************************************)
\* C28: a CR whose status is MERGED has no staging table at its staging_path
C28_MergedHasNoStaging ==
    \A c \in DOMAIN crs : crs[c].status = MERGED => crs[c].staging_path \notin DOMAIN staging

\* C30: the staging_path of a CR is the one create_change_request gave it,
\* staging/<cr_id>, and no step changes it or removes the CR
C30_StagingPathFrame ==
    [][/\ \A c \in DOMAIN crs :
             c \in DOMAIN crs' /\ crs'[c].staging_path = crs[c].staging_path
       /\ \A c \in DOMAIN crs' \ DOMAIN crs :
             ret'.op = "create" /\ crs'[c].staging_path = CrStagingName(c)]_vars

\* a merged CR whose edits were saved and whose staging directory was
\* written and cleaned up again
C30_Witness ==
    \E c \in DOMAIN crs :
        /\ crs[c].status = MERGED
        /\ c \in DOMAIN cr_edits
        /\ ret.op = "cleanup_staging" /\ ret.ok /\ ret.cr = c
        /\ crs[c].staging_path = CrStagingName(c)

(***************************************************************************)
(* Claims about the audit of a forced merge (specification Spec).          *)
(***************************************************************************)
\* C29: a merge that only force=true let through the merge gate leaves, as
\* its last audit event, an event that differs from the MERGED event of a
\* merge without force
C29_ForcedMergeIsDistinguishable ==
    [][\A c \in DOMAIN crs :
          (/\ ret'.op = "merge" /\ ret'.ok /\ ret'.cr = c
           /\ validate_merge(crs[c]) # "")
             => /\ events' # events
                /\ events'[Len(events')] # Event(c, "merged")]_vars

(***************************************************************************)
(* Claims about conflict detection (specification SpecStore).              *)
(***************************************************************************)
\* the rows of table rows as a set
RowSet(rows) == {rows[i] : i \in DOMAIN rows}

\* C31: every row full_merge reports as a conflict is a row of main that
\* changed after delta_version_before: a version before was supplied, main's
\* head is past it, and the row is not a row of main at that version
C31_ConflictOnlyForChangedRows ==
    [][\A name \in StagingNames, keys \in KeyInputs,
          delta_version_before \in VersionInputs, current_delta_version \in VersionInputs,
          fault \in ExecutorFaults :
          full_merge(name, keys, delta_version_before, current_delta_version, FALSE, fault)
            => \A i \in DOMAIN ret'.conflicts :
                  /\ delta_version_before # {}
                  /\ \A v \in delta_version_before :
                        /\ v < Version(mainLog)
                        /\ ret'.conflicts[i] \notin RowSet(mainLog[v + 1].rows)]_vars

(***************************************************************************)
(* Claims about the diff of a merge (specification SpecStore).             *)
(***************************************************************************)
\* max(0, x)
AtLeastZero(x) == IF x > 0 THEN x ELSE 0

\* C32: the diff of a successful full_merge names, as version_before, the
\* delta_version_before the caller supplied (0 included), and its rows_added
\* and rows_deleted are the growth and the shrinkage of main's row count
\* from version_before to version_after
C32_DiffDescribesTheMerge ==
    [][\A name \in StagingNames, keys \in KeyInputs,
          delta_version_before \in VersionInputs, current_delta_version \in VersionInputs,
          skip_conflict_check \in BOOLEAN, fault \in ExecutorFaults :
          (/\ full_merge(name, keys, delta_version_before, current_delta_version,
                         skip_conflict_check, fault)
           /\ ret'.ok)
            => \A diff \in ret'.diff :
                  /\ \A v \in delta_version_before : diff.version_before = v
                  /\ diff.version_after = Version(mainLog')
                  /\ diff.version_before \in 0..Version(mainLog')
                       => LET before == Len(mainLog'[diff.version_before + 1].rows)
                              after == Len(mainLog'[diff.version_after + 1].rows)
                          IN /\ diff.rows_added = AtLeastZero(after - before)
                             /\ diff.rows_deleted = AtLeastZero(before - after)]_vars
(***************************************************************************)
(* duckdb_pool.py : the shared query connection.  Every service obtains    *)
(* its connection from get_connection; two request threads run callers of  *)
(* it step by step.  pool.connection is _connection (empty for None),      *)
(* pool.initialized is _initialized, pool.lock holds the thread that is    *)
(* inside "with _lock".  The numbered connections record what was done to  *)
(* each object duckdb.connect() returned.                                  *)
(***************************************************************************)

\* calls each thread makes
MaxCalls == 2

\* callers of get_connection: health_check runs a query on the connection;
\* get_rows_by_ids runs a query and then calls conn.close()
PoolCallers == {"health_check", "get_rows_by_ids"}

\* INSTALL delta / LOAD delta either succeed or raise
PoolFaults == {"none", "raise"}

IdleCaller == [pc |-> "idle", op |-> "", calls |-> 0, got |-> {}, ok |-> {}]

\* a request enters a caller of get_connection
pool_begin(t, op) ==
    /\ thr[t].pc = "idle"
    /\ thr[t].calls < MaxCalls
    /\ thr' = [thr EXCEPT ![t] = [pc |-> "fast_connection", op |-> op,
                                  calls |-> @.calls + 1, got |-> {},
                                  ok |-> {}]]
    /\ UNCHANGED <<crs, events, staging, mainLog, ret, conn, uploads,
                   validation, sessions, edits, clock, cr_edits, pool, datasets>>

\* "if _connection is not None" of the unlocked test
gc_fast_connection(t) ==
    /\ thr[t].pc = "fast_connection"
    /\ thr' = [thr EXCEPT ![t].pc =
                  IF pool.connection # {} THEN "fast_initialized"
                  ELSE "acquire"]
    /\ UNCHANGED <<crs, events, staging, mainLog, ret, conn, uploads,
                   validation, sessions, edits, clock, cr_edits, pool, datasets>>

\* "and _initialized" of the unlocked test
gc_fast_initialized(t) ==
    /\ thr[t].pc = "fast_initialized"
    /\ thr' = [thr EXCEPT ![t].pc =
                  IF pool.initialized THEN "fast_return" ELSE "acquire"]
    /\ UNCHANGED <<crs, events, staging, mainLog, ret, conn, uploads,
                   validation, sessions, edits, clock, cr_edits, pool, datasets>>

\* "return _connection" of the unlocked test: the global is read again
gc_fast_return(t) ==
    /\ thr[t].pc = "fast_return"
    /\ thr' = [thr EXCEPT ![t].pc = "use", ![t].got = pool.connection]
    /\ pool' = [pool EXCEPT !.handed = @ \cup pool.connection]
    /\ UNCHANGED <<crs, events, staging, mainLog, ret, conn, uploads,
                   validation, sessions, edits, clock, cr_edits, datasets>>

\* "with _lock:" blocks until the lock is free
gc_acquire(t) ==
    /\ thr[t].pc = "acquire"
    /\ pool.lock = {}
    /\ thr' = [thr EXCEPT ![t].pc = "recheck"]
    /\ pool' = [pool EXCEPT !.lock = {t}]
    /\ UNCHANGED <<crs, events, staging, mainLog, ret, conn, uploads,
                   validation, sessions, edits, clock, cr_edits, datasets>>

\* a locked section that does not test again and always initialises
gc_recheck_without_double_check(t) ==
    /\ thr[t].pc = "recheck"
    /\ thr' = [thr EXCEPT ![t].pc = "connect"]
    /\ UNCHANGED <<crs, events, staging, mainLog, ret, conn, uploads,
                   validation, sessions, edits, clock, cr_edits, pool, datasets>>

\* the double check under the lock: return the connection another thread
\* initialised meanwhile, releasing the lock, or go on to initialise
gc_recheck(t) ==
    /\ thr[t].pc = "recheck"
    /\ IF pool.connection # {} /\ pool.initialized
       THEN /\ thr' = [thr EXCEPT ![t].pc = "use",
                                  ![t].got = pool.connection]
            /\ pool' = [pool EXCEPT !.handed = @ \cup pool.connection,
                                    !.lock = {}]
       ELSE /\ thr' = [thr EXCEPT ![t].pc = "connect"]
            /\ UNCHANGED pool
    /\ UNCHANGED <<crs, events, staging, mainLog, ret, conn, uploads,
                   validation, sessions, edits, clock, cr_edits, datasets>>

\* _connection = duckdb.connect()
gc_connect(t) ==
    /\ thr[t].pc = "connect"
    /\ thr' = [thr EXCEPT ![t].pc = "install"]
    /\ pool' = [pool EXCEPT !.made = @ + 1, !.connection = {pool.made + 1}]
    /\ UNCHANGED <<crs, events, staging, mainLog, ret, conn, uploads,
                   validation, sessions, edits, clock, cr_edits, datasets>>

\* the exception leaves "with _lock" and get_connection; the caller catches
\* it and answers ok = False
gc_raise(t) ==
    /\ thr' = [thr EXCEPT ![t].pc = "idle", ![t].ok = {FALSE}]
    /\ pool' = [pool EXCEPT !.lock = {}]

\* _connection.execute("INSTALL delta;")
gc_install(t, fault) ==
    /\ thr[t].pc = "install"
    /\ IF fault = "raise"
       THEN gc_raise(t)
       ELSE /\ thr' = [thr EXCEPT ![t].pc = "load"]
            /\ pool' = [pool EXCEPT !.installed = @ \cup pool.connection]
    /\ UNCHANGED <<crs, events, staging, mainLog, ret, conn, uploads,
                   validation, sessions, edits, clock, cr_edits, datasets>>

\* _connection.execute("LOAD delta;")
gc_load(t, fault) ==
    /\ thr[t].pc = "load"
    /\ IF fault = "raise"
       THEN gc_raise(t)
       ELSE /\ thr' = [thr EXCEPT ![t].pc = "set_initialized"]
            /\ pool' = [pool EXCEPT !.loaded = @ \cup pool.connection]
    /\ UNCHANGED <<crs, events, staging, mainLog, ret, conn, uploads,
                   validation, sessions, edits, clock, cr_edits, datasets>>

\* _initialized = True
gc_set_initialized(t) ==
    /\ thr[t].pc = "set_initialized"
    /\ thr' = [thr EXCEPT ![t].pc = "return_locked"]
    /\ pool' = [pool EXCEPT !.initialized = TRUE]
    /\ UNCHANGED <<crs, events, staging, mainLog, ret, conn, uploads,
                   validation, sessions, edits, clock, cr_edits, datasets>>

\* "return _connection" at the end of the locked section
gc_return_locked(t) ==
    /\ thr[t].pc = "return_locked"
    /\ thr' = [thr EXCEPT ![t].pc = "use", ![t].got = pool.connection]
    /\ pool' = [pool EXCEPT !.handed = @ \cup pool.connection, !.lock = {}]
    /\ UNCHANGED <<crs, events, staging, mainLog, ret, conn, uploads,
                   validation, sessions, edits, clock, cr_edits, datasets>>

\* con.execute(...) of the caller: a closed connection raises and the caller
\* answers ok = False.  health_check answers here; get_rows_by_ids goes on
pool_execute(t) ==
    /\ thr[t].pc = "use"
    /\ thr' = [thr EXCEPT
                 ![t].pc = IF thr[t].got \cap pool.closed # {} THEN "idle"
                           ELSE IF thr[t].op = "get_rows_by_ids" THEN "close"
                           ELSE "idle",
                 ![t].ok = IF thr[t].got \cap pool.closed # {} THEN {FALSE}
                           ELSE IF thr[t].op = "get_rows_by_ids" THEN {}
                           ELSE {TRUE}]
    /\ UNCHANGED <<crs, events, staging, mainLog, ret, conn, uploads,
                   validation, sessions, edits, clock, cr_edits, pool, datasets>>

\* conn.close() of get_rows_by_ids, on the object get_connection returned
rows_close(t) ==
    /\ thr[t].pc = "close"
    /\ thr' = [thr EXCEPT ![t].pc = "idle", ![t].ok = {TRUE}]
    /\ pool' = [pool EXCEPT !.closed = @ \cup thr[t].got]
    /\ UNCHANGED <<crs, events, staging, mainLog, ret, conn, uploads,
                   validation, sessions, edits, clock, cr_edits, datasets>>

InitPool ==
    /\ crs = <<>>
    /\ events = <<>>
    /\ staging = <<>>
    /\ mainLog = << [rows |-> LiveMain, by |-> "DeltaStorageAdapter.ensure_main_table"] >>
    /\ ret = NoRet
    /\ thr = [t \in Threads |-> IdleCaller]
    /\ conn = NoViews
    /\ uploads = <<>>
    /\ validation = NoValidation
    /\ sessions = <<>>
    /\ edits = <<>>
    /\ clock = 0
    /\ cr_edits = <<>>
    /\ pool = NoPool
    /\ datasets = <<>>

NextPool ==
    \E t \in Threads :
        \/ \E op \in PoolCallers : pool_begin(t, op)
        \/ gc_fast_connection(t)
        \/ gc_fast_initialized(t)
        \/ gc_fast_return(t)
        \/ gc_acquire(t)
        \/ gc_recheck(t)
        \/ gc_connect(t)
        \/ \E fault \in PoolFaults : gc_install(t, fault)
        \/ \E fault \in PoolFaults : gc_load(t, fault)
        \/ gc_set_initialized(t)
        \/ gc_return_locked(t)
        \/ pool_execute(t)
        \/ rows_close(t)

SpecPool == InitPool /\ [][NextPool]_vars

\* C33: under every interleaving of the callers of get_connection the
\* extension is installed and loaded to completion on one connection only,
\* every caller that receives a connection receives that same one, and no
\* caller receives a connection on which LOAD has not completed
C33_OneSharedLoadedConnection ==
    /\ Cardinality(pool.loaded) <= 1
    /\ Cardinality(pool.handed) <= 1
    /\ pool.handed \subseteq pool.loaded
    /\ \A t \in Threads : thr[t].got \subseteq pool.loaded

\* both threads have called once and hold the one connection that was made
C33_Witness ==
    /\ \A t \in Threads : thr[t].got # {} /\ thr[t].calls = 1
    /\ pool.made = 1
    /\ pool.lock = {}
\* C40: after any sequence of service operations the connection that
\* get_connection returns is open: no caller has closed the object that
\* _connection refers to, and no caller holds a closed connection
C40_SharedConnectionStaysOpen ==
    /\ pool.connection \cap pool.closed = {}
    /\ \A t \in Threads : thr[t].got \cap pool.closed = {}
StagedAtStart(n) == IF n = IntStagingName(1) THEN StagedRows ELSE OtherStagedRows

\* main after the merge of staging a and then the merge of staging b
OneAfterTheOther(a, b) ==
    merged_table(StagedAtStart(b),
                 merged_table(StagedAtStart(a), InitialMain, <<"id">>),
                 <<"id">>)

\* C35: when two merges of different change requests into the same dataset
\* have both reported success, main holds the rows that result from applying
\* the two upserts one after the other in one of the two orders
C35_MergesAreSerialised ==
    (/\ \A t \in Threads : thr[t].pc = "done" /\ thr[t].merge_result # {}
     /\ thr["t1"].name # thr["t2"].name)
        => LET a == thr["t1"].name
               b == thr["t2"].name
           IN  RowSet(HeadRows(mainLog)) \in
                  { RowSet(OneAfterTheOther(a, b)), RowSet(OneAfterTheOther(b, a)) }
(***************************************************************************)
(* merge_executor.py : execute_merge for several datasets at once.  Each   *)
(* request thread merges the staging table of its own dataset into that    *)
(* dataset's main; the views tgt and src are views of the one connection   *)
(* duckdb_pool.get_connection returns (specification SpecViews).           *)
(***************************************************************************)

\* merges each thread runs
MaxMerges == 1

DatasetIds == {1, 2}

\* main and staging of the two datasets
DatasetTables ==
    [d \in DatasetIds |->
        IF d = 1
        THEN [main |-> << [rows |-> InitialMain, by |-> "DeltaStorageAdapter.ensure_main_table"] >>,
              staging |-> StagedRows]
        ELSE [main |-> << [rows |-> << [id |-> "2", v |-> "b"] >>,
                           by |-> "DeltaStorageAdapter.ensure_main_table"] >>,
              staging |-> OtherStagedRows]]

IdleMerger == [pc |-> "idle", dataset |-> {}, merges |-> 0, merged_table |-> <<>>]

\* execute_merge is entered for a dataset no other request is merging; both
\* paths exist
em_begin(t, d) ==
    /\ thr[t].pc = "idle"
    /\ thr[t].merges < MaxMerges
    /\ \A u \in Threads \ {t} : d \notin thr[u].dataset
    /\ thr' = [thr EXCEPT ![t] = [pc |-> "view_tgt", dataset |-> {d},
                                  merges |-> @.merges + 1,
                                  merged_table |-> <<>>]]
    /\ UNCHANGED <<crs, events, staging, mainLog, ret, conn, uploads,
                   validation, sessions, edits, clock, cr_edits, pool, datasets>>

\* CREATE OR REPLACE VIEW tgt AS SELECT * FROM delta_scan(main_path)
em_view_tgt(t) ==
    /\ thr[t].pc = "view_tgt"
    /\ conn' = [conn EXCEPT !.tgt = thr[t].dataset]
    /\ thr' = [thr EXCEPT ![t].pc = "view_src"]
    /\ UNCHANGED <<crs, events, staging, mainLog, ret, uploads,
                   validation, sessions, edits, clock, cr_edits, pool, datasets>>

\* CREATE OR REPLACE VIEW src AS SELECT * FROM delta_scan(staging_path)
em_view_src(t) ==
    /\ thr[t].pc = "view_src"
    /\ conn' = [conn EXCEPT !.src = thr[t].dataset]
    /\ thr' = [thr EXCEPT ![t].pc = "query"]
    /\ UNCHANGED <<crs, events, staging, mainLog, ret, uploads,
                   validation, sessions, edits, clock, cr_edits, pool, datasets>>

\* con.execute(upsert_sql).fetch_arrow_table(): the query names the views,
\* which scan whatever tables they were last replaced with
em_query(t) ==
    /\ thr[t].pc = "query"
    /\ LET tgt == CHOOSE d \in conn.tgt : TRUE
           src == CHOOSE d \in conn.src : TRUE
       IN  thr' = [thr EXCEPT ![t].pc = "write",
                              ![t].merged_table =
                                  merged_table(datasets[src].staging,
                                               HeadRows(datasets[tgt].main),
                                               <<"id">>)]
    /\ UNCHANGED <<crs, events, staging, mainLog, ret, conn, uploads,
                   validation, sessions, edits, clock, cr_edits, pool, datasets>>

\* write_deltalake(main_path, merged_table, mode="overwrite") on the
\* request's own main_path, and the result is returned
em_write(t) ==
    /\ thr[t].pc = "write"
    /\ LET d == CHOOSE x \in thr[t].dataset : TRUE
       IN  /\ datasets' = [datasets EXCEPT ![d].main =
                              Commit(@, thr[t].merged_table, "MergeExecutor.execute_merge")]
           /\ ret' = [op |-> "execute_merge", cr |-> d, ok |-> TRUE, error |-> "",
                      merged_version |-> Version(datasets'[d].main),
                      rows_affected |-> Len(thr[t].merged_table)]
    /\ thr' = [thr EXCEPT ![t].pc = "idle", ![t].dataset = {}]
    /\ UNCHANGED <<crs, events, staging, mainLog, conn, uploads,
                   validation, sessions, edits, clock, cr_edits, pool>>

InitViews ==
    /\ crs = <<>>
    /\ events = <<>>
    /\ staging = <<>>
    /\ mainLog = << [rows |-> InitialMain, by |-> "DeltaStorageAdapter.ensure_main_table"] >>
    /\ ret = NoRet
    /\ thr = [t \in Threads |-> IdleMerger]
    /\ conn = NoViews
    /\ uploads = <<>>
    /\ validation = NoValidation
    /\ sessions = <<>>
    /\ edits = <<>>
    /\ clock = 0
    /\ cr_edits = <<>>
    /\ pool = NoPool
    /\ datasets = DatasetTables

NextViews ==
    \E t \in Threads :
        \/ \E d \in DatasetIds : em_begin(t, d)
        \/ em_view_tgt(t)
        \/ em_view_src(t)
        \/ em_query(t)
        \/ em_write(t)

SpecViews == InitViews /\ [][NextViews]_vars

\* C36: merges of different datasets that run at the same time do not reach
\* each other through the shared connection: the main a merge writes is the
\* upsert of its own dataset's staging into its own dataset's previous main
C36_MergeReadsItsOwnTables ==
    [][\A d \in DatasetIds :
          datasets'[d].main # datasets[d].main
             => /\ Len(datasets'[d].main) = Len(datasets[d].main) + 1
                /\ HeadRows(datasets'[d].main) =
                      merged_table(datasets[d].staging, HeadRows(datasets[d].main),
                                   <<"id">>)]_vars
(***************************************************************************)
(* Claims about refused operations.                                        *)
(***************************************************************************)
\* C37: a submit_for_review that returns failure leaves every field of the
\* change request as it was, validation_summary and the warning, error and
\* fatal counters included
C37_RefusedSubmitChangesNothing ==
    [][(ret'.op = "submit" /\ ~ret'.ok /\ ret'.cr \in DOMAIN crs)
          => crs'[ret'.cr] = crs[ret'.cr]]_vars
\* C38: apply_changes answers ok = true exactly when it committed an
\* overwrite version of main; when it answers ok = false, main's content and
\* head version are what they were
C38_ApplyOkIffCommitted ==
    [][ret'.op = "apply_changes"
          => /\ ret'.ok <=> (/\ Version(mainLog') = Version(mainLog) + 1
                             /\ mainLog'[Len(mainLog')].by = "LiveEditService.apply_changes")
             /\ ~ret'.ok => mainLog' = mainLog]_vars
\* detect_conflicts leaves its try block by an exception: the versions do not
\* end it before the try, and a query raises (no key column to select, no
\* staging table, a NULL key in the condition of the report query, or the
\* connection fails)
DetectionRaises(name, keys, delta_version_before, current_delta_version, fault) ==
    /\ ~(/\ delta_version_before # {}
         /\ current_delta_version # {}
         /\ delta_version_before = current_delta_version)
    /\ \/ fault = "detect_conflicts"
       \/ keys = <<>>
       \/ name \notin DOMAIN staging
       \/ /\ staging[name] # <<>>
          /\ delta_version_before # {}
          /\ \E i \in DOMAIN OverlappingKeys(HeadRows(mainLog), staging[name], keys) :
                \E k \in DOMAIN keys :
                    OverlappingKeys(HeadRows(mainLog), staging[name], keys)[i][keys[k]] = Null

\* C39: when conflict detection itself fails with an error and
\* skip_conflict_check is false, full_merge does not go on to execute the
\* merge: main is not written and the merge is not reported as done
C39_FailedDetectionStopsMerge ==
    [][\A name \in StagingNames, keys \in KeyInputs,
          delta_version_before \in VersionInputs, current_delta_version \in VersionInputs,
          fault \in ExecutorFaults :
          (/\ DetectionRaises(name, keys, delta_version_before, current_delta_version, fault)
           /\ full_merge(name, keys, delta_version_before, current_delta_version,
                         FALSE, fault))
             => /\ mainLog' = mainLog
                /\ ~ret'.ok]_vars

====
